---- MODULE Spec2Model ----
(***************************************************************************)
(* A model of the write-optimized skip list of zeebo/wosl in three parts:  *)
(*   Spec       the operator: Insert, newRoot and flush over a cache that  *)
(*              keeps the contract of the Cache interface;                 *)
(*   SpecLease  one lease.T and the calls made on it;                      *)
(*   SpecCache  the memCache of the tests over its memDisk.                *)
(*                                                                         *)
(* Sizes are counted in entries: every key/value pair takes one unit of a  *)
(* node's arena, blockSize is the disk's block size in those units and cap *)
(* is the size at which a node's Insert refuses a further entry            *)
(* (MaxUint32 in the program).  A run of the operator works on one of two  *)
(* disks: one with a block of BlockSize entries, below the cap, and one    *)
(* whose block is larger than the cap, where the unit is so coarse that    *)
(* the cap is reached by the last Insert of the run.                       *)
(* Keys are 1..MaxKey, ordered as numbers; the height of a key is a fixed  *)
(* function of the key, chosen when the behaviour starts.  The cache and   *)
(* the disk may fail: at most MaxFaults times in a behaviour.              *)
(***************************************************************************)
EXTENDS Integers, Sequences, FiniteSets, TLC

\* ----------------------------------------------------------------- bounds
MaxKey == 3
MaxOps == 4
MaxFaults == 1
MaxBlocks == 2
MaxBKey == 7
MaxNKey == 4
MaxNodeOps == 3
MaxCapOps == 4
MaxHash == 3
MaxDraws == 33300

\* ------------------------------------------------------ program constants
noBlock == 0
rootBlock == 1
invalidBlock == 2147483647
BlockSize == 2
NodeCap == 4

\* package btree: math.MaxUint32 names no node (written as the int32 of the
\* same bits); a node splits at payloadEntries entries, 127 in the source
invalidNode == -1
payloadEntries == 3
payloadSplit == payloadEntries \div 2

\* package node: the sizes of the headers, the kinds of entries and the
\* bits of an entry's packed lengths
nodeHeaderSize == 0 + 4 + 4 + 4 + 4
entryHeaderSize == 0 + 4 + 4 + 4
kindInsert == 0
kindTombstone == 1
keyBits == 10
valueBits == 20
keyMask == 2^keyBits - 1
valueMask == 2^valueBits - 1

\* package node with a capacity (src/internal/node/node.go): the sizes of
\* its headers and the length reset cuts the buffer to
capEntryHeaderSize == 0 + 4 + 1 + 4 + 4
capNodeHeaderSize == 0 + 4 + 4 + 4 + 2
resetLength == 32

Keys == 1..MaxKey

\* The heights the keys of a run may have: T.height is a fixed function of
\* the key, and a run works with one of these assignments (key k has the
\* height at position k).
HeightTables == {<<1, 2, 0, 2, 1>>, <<2, 1, 2, 0, 1>>, <<0, 1, 0, 2, 2>>}

\* The disks a run may work on: block size and, in the same unit, the cap.
NormalDisk == [b |-> BlockSize, cap |-> NodeCap]
HugeDisk == [b |-> MaxOps, cap |-> MaxOps - 1]
Configs == {NormalDisk, HugeDisk}

VARIABLES
    blockSize,  \* T.b: the block size of the disk
    cap,        \* the size at which Node.Insert refuses an entry
    root,       \* T.root: the in-memory root node
    nodes,      \* the cache's nodes: block -> node
    leases,     \* the cache's lease counters: block -> count
    disk,       \* the blocks written to the disk
    maxBlock,   \* T.maxBlock
    pc,         \* where the running Insert is: idle, grow, cacheflush, flush, panic
    key,        \* the key of the running Insert
    big,        \* whether its key or value is longer than keyMask/valueMask
    stack,      \* the activation records of flush, innermost last
    ret,        \* what the last Insert returned: none, nil, err
    hgt,        \* height of each key
    ops,        \* Insert calls made
    faults,     \* failures of the cache or the disk so far
    okKeys,     \* keys whose Insert returned nil
    sinceGrow,  \* keys whose Insert returned nil since the root last grew
    rootFlushed,\* a flush of the root has been started
    allOk,      \* every Insert so far returned nil
    trace,      \* what the running (or last) Insert did, in order
    leaseLog,   \* per lease of the running Insert: release callbacks run
    raised      \* an error was raised during the running (or last) Insert

woslVars == <<blockSize, cap, root, nodes, leases, disk, maxBlock, pc, key, big, stack, ret,
              hgt, ops, faults, okKeys, sinceGrow, rootFlushed, allOk, trace,
              leaseLog, raised>>

\* A lease.T on its own: one lease variable of a caller.
VARIABLES
    lt,         \* the lease variable: n, block, cb
    acq,        \* the lease as lease.New returned it
    cbLog,      \* the callback's invocations since New: <<n, block>> each
    closeRet,   \* what the Close calls since New returned, in order
    lops        \* calls made on the lease

leaseVars == <<lt, acq, cbLog, closeRet, lops>>

\* The memCache of the tests over its memDisk.
VARIABLES
    mNodes,     \* memCache.nodes: block -> node instance
    mLeases,    \* memCache.leases: block -> count
    mBlocks,    \* memDisk.blocks: block -> data
    mMax,       \* memDisk.max
    heap,       \* the node instances in memory: content and dirty flag
    held,       \* the leases callers hold: n (instance), block
    mState,     \* ok, or panic once the cache panicked
    mErr,       \* whether the last call returned an error
    mops,       \* calls made on the cache and the disk
    mLast       \* the last call: flush is a Flush whose disk writes all succeeded

memVars ==
    <<mNodes, mLeases, mBlocks, mMax, heap, held, mState, mErr, mops, mLast>>

\* A btree.T of package btree and the calls made on it.
VARIABLES
    bt,         \* the tree Insert is called on
    bBulk,      \* a Bulk that is given the same entries
    bKeys,      \* the distinct keys given to the tree so far
    bLast       \* the last call on the tree and what it returned

btreeVars == <<bt, bBulk, bKeys, bLast>>

\* One node of a btree: the node, and of the last insertEntry the node
\* before it, the key, the entry and the value returned.
VARIABLES bn

\* One node.T: the node, the node loaded from its last Write, and the calls
\* made on it.
VARIABLES nd

\* One call of height: its arguments, the generator, the locals of the loop
\* and the place the call is at.
VARIABLES hg

\* One entry.T of package entry, what it was built from and the last call
\* on it.
VARIABLES en

\* One node.T of the package that gives a node a capacity: the node, a node
\* made by New with the same arguments once the first was reset, the last
\* Load and the calls made.
VARIABLES cnode

\* the state of the internal packages, which the skip list's behaviours
\* leave alone
libVars == <<btreeVars, bn, nd, hg, en, cnode>>

vars == <<woslVars, leaseVars, memVars, libVars>>

\* ------------------------------------------------------------------ nodes

\* node.New: an empty node; the header pivot starts at 0.
NewNode(next, height) ==
    [next |-> next, height |-> height, pivot |-> noBlock, ents |-> <<>>,
     len |-> 0, dirty |-> FALSE]

NodeKeys(n) == {n.ents[i].key : i \in DOMAIN n.ents}

\* insertEntry without the shift that makes room: the entry lands on its
\* successor.
InsertEntryNoShift(ents, ent) ==
    LET i == Cardinality({j \in DOMAIN ents : ents[j].key < ent.key})
    IN  IF i + 1 <= Len(ents)
        THEN [ents EXCEPT ![i + 1] = [ent EXCEPT !.pivot = ents[i + 1].pivot]]
        ELSE Append(ents, ent)

\* btreeNode.insertEntry: place the entry in key order; an entry with the
\* same key is overwritten but keeps its pivot.
InsertEntry(ents, ent) ==
    LET i == Cardinality({j \in DOMAIN ents : ents[j].key < ent.key})
    IN  IF i + 1 <= Len(ents) /\ ents[i + 1].key = ent.key
        THEN [ents EXCEPT ![i + 1] = [ent EXCEPT !.pivot = ents[i + 1].pivot]]
        ELSE SubSeq(ents, 1, i) \o <<ent>> \o SubSeq(ents, i + 1, Len(ents))

\* Node.Fits with size = MaxUint32.
Fits(n, isBig) == ~isBig /\ n.len < cap

\* Node.Insert: append to the arena and insert into the btree; mark dirty.
NodeInsert(n, k) ==
    [n EXCEPT !.ents = InsertEntry(n.ents, [key |-> k, pivot |-> noBlock]),
              !.len = n.len + 1,
              !.dirty = TRUE]

\* Node.Length
Length(n) == n.len

\* ------------------------------------------------------------------ world
\* The operator's collaborators as one record, so that the steps of a
\* handler can be chained: the root, the cache (nodes, leases), the disk,
\* the lease log, the failures so far, whether an error was raised, and
\* whether the program panicked.
World ==
    [root |-> root, nodes |-> nodes, leases |-> leases, disk |-> disk,
     log |-> leaseLog, faults |-> faults, raised |-> raised, panic |-> FALSE]

\* the world a step leaves behind becomes the state (v is the value of w)
Commit(w) ==
    \E v \in {w} :
        /\ root' = v.root
        /\ nodes' = v.nodes
        /\ leases' = v.leases
        /\ disk' = v.disk
        /\ leaseLog' = v.log
        /\ faults' = v.faults
        /\ raised' = v.raised

Known(w, block) == block \in DOMAIN w.nodes

\* the node behind a block: the root is held by the operator, not the cache
At(w, block) == IF block = rootBlock THEN w.root ELSE w.nodes[block]

Put(w, block, n) ==
    IF block = rootBlock
    THEN [w EXCEPT !.root = n]
    ELSE [w EXCEPT !.nodes[block] = n]

Fault(w) == [w EXCEPT !.faults = w.faults + 1, !.raised = TRUE]

\* Add that does not keep the node.
CacheAddForgets(w, n, block) ==
    IF Known(w, block) THEN [w EXCEPT !.panic = TRUE] ELSE w

\* memCache.Add: panics when the block already has a node.
CacheAdd(w, n, block) ==
    IF Known(w, block)
    THEN [w EXCEPT !.panic = TRUE]
    ELSE [w EXCEPT !.nodes = w.nodes @@ (block :> n),
                   !.leases = w.leases @@ (block :> 0)]

\* the zero lease, lease.T{}
ZeroLease == [block |-> noBlock, id |-> 0]

\* lease.T.Zero
Zero(le) == le.id = 0

\* Cache.Get: an error when there is no node for the block (or the cache
\* fails); otherwise a lease over the cached node, counted in leases.
CacheGet(w, block, fail) ==
    IF fail
    THEN [w |-> Fault(w), le |-> ZeroLease, ok |-> FALSE]
    ELSE IF ~Known(w, block)
    THEN [w |-> [w EXCEPT !.raised = TRUE], le |-> ZeroLease, ok |-> FALSE]
    ELSE [w |-> [w EXCEPT !.leases[block] = w.leases[block] + 1,
                          !.log = Append(w.log, 0)],
          le |-> [block |-> block, id |-> Len(w.log) + 1],
          ok |-> TRUE]

\* memCache.writeBack, the release callback: drop one lease on the block and,
\* when none is left, write the node to the disk.
WriteBack(w, block, fail) ==
    LET w1 == [w EXCEPT !.leases[block] = w.leases[block] - 1]
    IN  IF w1.leases[block] > 0 THEN w1
        ELSE IF fail THEN Fault(w1)
        ELSE [w1 EXCEPT !.nodes[block].dirty = FALSE,
                        !.disk = w1.disk \cup {block}]

\* lease.T.Close: run the callback unless the lease is zero; the caller's
\* lease variable becomes the zero lease either way.
LeaseClose(w, le, fail) ==
    IF Zero(le) THEN w
    ELSE WriteBack([w EXCEPT !.log[le.id] = w.log[le.id] + 1], le.block, fail)

\* Cache.Flush: write back every dirty node of the cache.  When it fails,
\* the nodes in `done` were written before the failure.
DirtyBlocks(w) == {b \in DOMAIN w.nodes : w.nodes[b].dirty}

CacheFlushOk(w, done) ==
    [w EXCEPT !.nodes = [b \in DOMAIN w.nodes |->
                           IF b \in done THEN [w.nodes[b] EXCEPT !.dirty = FALSE]
                           ELSE w.nodes[b]],
              !.disk = w.disk \cup done]

\* ---------------------------------------------------------------- Insert

\* a step of Insert: the disk's parameters stay, nothing else moves
WoslOnly == UNCHANGED <<blockSize, cap, leaseVars, memVars, libVars>>

Ev(e) == trace' = Append(trace, e)

\* Insert returning: nil or an error.
Return(r) ==
    /\ pc' = "idle"
    /\ ret' = r
    /\ stack' = <<>>
    /\ allOk' = (allOk /\ r = "nil")
    /\ okKeys' = IF r = "nil" THEN okKeys \cup {key} ELSE okKeys
    /\ sinceGrow' = IF r = "nil" THEN sinceGrow \cup {key} ELSE sinceGrow

\* T.Insert is called with a key (and a value).
InsertCall(k, isBig) ==
    /\ pc = "idle"
    /\ ops < MaxOps
    /\ ops' = ops + 1
    /\ key' = k
    /\ big' = isBig
    /\ pc' = "grow"
    /\ ret' = "none"
    /\ trace' = <<>>
    /\ leaseLog' = <<>>
    /\ raised' = FALSE
    /\ UNCHANGED <<root, nodes, leases, disk, maxBlock, stack, hgt, faults,
                   okKeys, sinceGrow, rootFlushed, allOk>>
    /\ WoslOnly

\* newRoot that gives the new root the height of the old one.
NewRootSameHeight(w, block) ==
    LET w1 == [w EXCEPT !.disk = w.disk \cup {block}]
        w2 == CacheAdd(w1, [w.root EXCEPT !.dirty = FALSE], block)
    IN  [w2 EXCEPT !.root = [NewNode(noBlock, w.root.height)
                               EXCEPT !.pivot = block]]

\* T.newRoot with T.writeNewNode: the current root is written to a fresh
\* block and registered in the cache; the new root is one level higher and
\* points at it.
NewRootOk(w, block) ==
    LET w1 == [w EXCEPT !.disk = w.disk \cup {block}]
        w2 == CacheAdd(w1, [w.root EXCEPT !.dirty = FALSE], block)
    IN  [w2 EXCEPT !.root = [NewNode(noBlock, w.root.height + 1)
                               EXCEPT !.pivot = block]]

\* the loop condition with > for >=
NeedsRootAbove(h, n) == h > n.height

\* Insert's loop condition: the key's height reaches the root's.
NeedsRoot(h, n) == h >= n.height

\* a newRoot that registers the root under the block whose write failed
NewRootFailsRegistered(w, block) == Fault(CacheAdd(w, w.root, block))

\* T.newRoot when T.writeNewNode returns an error: the error is returned
\* before t.maxBlock, the cache or t.root are touched.
NewRootFails(w, block) == Fault(w)

\* One iteration of Insert's loop "for h >= t.root.Height()".
GrowRoot ==
    /\ pc = "grow"
    /\ NeedsRoot(hgt[key], root)
    /\ \/ /\ faults < MaxFaults          \* the disk write fails
          /\ Commit(NewRootFails(World, maxBlock + 1))
          /\ Ev("growfail")
          /\ Return("err")
          /\ UNCHANGED <<maxBlock, rootFlushed>>
       \/ LET w == NewRootOk(World, maxBlock + 1)
          IN  /\ Commit(w)
              /\ Ev("grow")
              /\ maxBlock' = maxBlock + 1
              /\ pc' = IF w.panic THEN "panic" ELSE "grow"
              /\ sinceGrow' = {}
              /\ UNCHANGED <<stack, ret, allOk, okKeys, rootFlushed>>
    /\ UNCHANGED <<key, big, hgt, ops>>
    /\ WoslOnly

\* The frame of a call flush(n, block, parents): the arguments, the place
\* the call is at, its locals, and in ents0 the entries n had when the
\* iteration started, kept while it runs.
Frame(block, parents) ==
    [block |-> block, parents |-> parents, ph |-> "start", i |-> 1,
     cblock |-> noBlock, cfix |-> FALSE, cn |-> FALSE, cle |-> ZeroLease,
     fixups |-> <<>>, leader |-> 0, splits |-> <<>>, bulk |-> <<>>,
     maxBlock |-> 0, pi |-> 1, pivot |-> noBlock, tmpSplits |-> <<>>,
     fi |-> 1, le |-> ZeroLease, err |-> FALSE, ents0 |-> <<>>]

\* a rejected entry sends Insert on to the flush of the cache and the root
RootRejectedFlushes ==
    /\ Ev("reject")
    /\ pc' = "cacheflush"
    /\ UNCHANGED <<root, raised, stack, ret, allOk, okKeys, sinceGrow>>

\* Insert when root.Insert returns false: "if it cannot be fit, then there's
\* nothing to do", the error is returned.
RootRejected ==
    /\ Ev("reject")
    /\ raised' = TRUE
    /\ Return("err")
    /\ UNCHANGED <<root>>

\* the test with <= for <
StillInsideOrAt(n) == Length(n) <= blockSize

\* "if we're still inside the block range, we're done!"
StillInside(n) == Length(n) < blockSize

\* Insert after the loop: insert into the root; done when the root is still
\* shorter than a block.
RootInsert ==
    /\ pc = "grow"
    /\ ~NeedsRoot(hgt[key], root)
    /\ IF ~Fits(root, big)
       THEN RootRejected
       ELSE /\ root' = NodeInsert(root, key)
            /\ Ev("insert")
            /\ IF StillInside(root')
               THEN Return("nil")
               ELSE /\ pc' = "cacheflush"
                    /\ UNCHANGED <<stack, ret, allOk, okKeys, sinceGrow>>
            /\ UNCHANGED raised
    /\ UNCHANGED <<nodes, leases, disk, maxBlock, key, big, hgt, ops, faults,
                   rootFlushed, leaseLog>>
    /\ WoslOnly

\* Insert: "we're going to flush the root, write back all of the dirty data"
\* and then the call of flush(t.root, rootBlock, nil).
CacheFlush ==
    /\ pc = "cacheflush"
    /\ \/ /\ faults < MaxFaults
          /\ \E done \in SUBSET DirtyBlocks(World) :
                /\ done = {} \/ done # DirtyBlocks(World)
                /\ Commit(Fault(CacheFlushOk(World, done)))
          /\ Ev("cacheflushfail")
          /\ Return("err")
          /\ UNCHANGED rootFlushed
       \/ /\ Commit(CacheFlushOk(World, DirtyBlocks(World)))
          /\ trace' = trace \o <<"cacheflush", "flushroot">>
          /\ pc' = "flush"
          /\ stack' = <<Frame(rootBlock, <<>>)>>
          /\ rootFlushed' = TRUE
          /\ UNCHANGED <<ret, allOk, okKeys, sinceGrow>>
    /\ UNCHANGED <<maxBlock, key, big, hgt, ops>>
    /\ WoslOnly


\* ----------------------------------------------------------------- flush

Top == stack[Len(stack)]
SetTop(f) == [stack EXCEPT ![Len(stack)] = f]

\* Bulk.Done: the node built from the appended entries.
BulkDone(bulk, next, height) ==
    [NewNode(next, height) EXCEPT !.ents = bulk, !.len = Len(bulk),
                                  !.dirty = Len(bulk) > 0]

\* Bulk.Fits with size = MaxUint32.
BulkFits(bulk) == Len(bulk) < cap

\* flush, up to the iteration: the assertion that n is no leaf, the lazily
\* allocated leaf of a node whose pivot is invalidBlock, and the initial
\* state of the iteration.
FlushStart ==
    /\ pc = "flush"
    /\ Top.ph = "start"
    /\ LET f == Top
           n == At(World, f.block)
           lazy == n.pivot = invalidBlock
           newBlock == maxBlock + 1
           w1 == IF lazy
                 THEN Put(CacheAdd(World, NewNode(noBlock, 0), newBlock),
                          f.block, [n EXCEPT !.pivot = newBlock])
                 ELSE World
           mb == IF lazy THEN maxBlock + 1 ELSE maxBlock
       IN  IF n.height = 0
           THEN /\ pc' = "assert"
                /\ UNCHANGED <<root, nodes, leases, disk, maxBlock, stack,
                               leaseLog, faults, raised>>
           ELSE /\ Commit(w1)
                /\ maxBlock' = mb
                /\ pc' = IF w1.panic THEN "panic" ELSE "flush"
                /\ stack' = SetTop([f EXCEPT !.ph = "iter",
                                             !.cblock = At(w1, f.block).pivot,
                                             !.maxBlock = mb,
                                             !.ents0 = n.ents])
    /\ UNCHANGED <<key, big, ret, hgt, ops, okKeys, sinceGrow, rootFlushed,
                   allOk, trace>>
    /\ WoslOnly

\* a split that starts at an entry as high as the node
StartsSplitAtHeight(h, nh) == h >= nh

\* "if the height is strictly greater, we need to split"
StartsSplit(h, nh) == h > nh

\* the callback without "set the pivot to zero to truncate it from our
\* filter"
AfterChildInsertKeepsPivot(w, f) ==
    LET n == At(w, f.block)
        nh == n.height
        ent == n.ents[f.i]
        cn == At(w, f.cblock)
        fix == ~f.cfix /\ (Length(cn) >= blockSize \/ nh = 1)
        f1 == IF fix
              THEN [f EXCEPT !.cfix = TRUE, !.fixups = Append(f.fixups, f.cblock)]
              ELSE f
        h == hgt[ent.key]
        p1 == IF h >= nh THEN f.cblock ELSE ent.pivot
        closeSplit == StartsSplit(h, nh) /\ f.leader # 0
        f2 == IF closeSplit
              THEN [f1 EXCEPT !.maxBlock = f.maxBlock + 1,
                              !.splits = Append(f.splits,
                                   [block |-> f.maxBlock + 1,
                                    n |-> BulkDone(f.bulk, n.next, n.height),
                                    leader |-> f.leader]),
                              !.bulk = <<>>]
              ELSE f1
        f3 == IF StartsSplit(h, nh) THEN [f2 EXCEPT !.leader = ent.key] ELSE f2
        inSplit == f3.leader # 0
    IN  IF inSplit /\ ~BulkFits(f3.bulk)
        THEN [w |-> [Put(w, f.block, [n EXCEPT !.ents[f.i].pivot = p1])
                       EXCEPT !.raised = TRUE],
              f |-> [f3 EXCEPT !.err = TRUE]]
        ELSE IF inSplit
        THEN [w |-> Put(w, f.block, [n EXCEPT !.ents[f.i].pivot = p1]),
              f |-> [f3 EXCEPT !.i = f.i + 1,
                               !.bulk = Append(f3.bulk,
                                               [key |-> ent.key, pivot |-> p1])]]
        ELSE [w |-> Put(w, f.block, [n EXCEPT !.ents[f.i].pivot = p1]),
              f |-> [f3 EXCEPT !.i = f.i + 1]]

\* What the callback of n.Flush does after the child node accepted the
\* entry: note the child for a fixup, make the entry a pivot when its height
\* reaches the node's, start a sibling when it exceeds it, and move the
\* entry to the sibling under construction.
AfterChildInsert(w, f) ==
    LET n == At(w, f.block)
        nh == n.height
        ent == n.ents[f.i]
        cn == At(w, f.cblock)
        fix == ~f.cfix /\ (Length(cn) >= blockSize \/ nh = 1)
        f1 == IF fix
              THEN [f EXCEPT !.cfix = TRUE, !.fixups = Append(f.fixups, f.cblock)]
              ELSE f
        h == hgt[ent.key]
        p1 == IF h >= nh THEN f.cblock ELSE ent.pivot
        closeSplit == StartsSplit(h, nh) /\ f.leader # 0
        f2 == IF closeSplit
              THEN [f1 EXCEPT !.maxBlock = f.maxBlock + 1,
                              !.splits = Append(f.splits,
                                   [block |-> f.maxBlock + 1,
                                    n |-> BulkDone(f.bulk, n.next, n.height),
                                    leader |-> f.leader]),
                              !.bulk = <<>>]
              ELSE f1
        f3 == IF StartsSplit(h, nh) THEN [f2 EXCEPT !.leader = ent.key] ELSE f2
        inSplit == f3.leader # 0
    IN  IF inSplit /\ ~BulkFits(f3.bulk)
        THEN [w |-> [Put(w, f.block, [n EXCEPT !.ents[f.i].pivot = p1])
                       EXCEPT !.raised = TRUE],
              f |-> [f3 EXCEPT !.err = TRUE]]
        ELSE IF inSplit
        THEN [w |-> Put(w, f.block, [n EXCEPT !.ents[f.i].pivot = noBlock]),
              f |-> [f3 EXCEPT !.i = f.i + 1,
                               !.bulk = Append(f3.bulk,
                                               [key |-> ent.key, pivot |-> p1])]]
        ELSE [w |-> Put(w, f.block, [n EXCEPT !.ents[f.i].pivot = p1]),
              f |-> [f3 EXCEPT !.i = f.i + 1]]

\* a child that is given the entry and does not store it
ChildInsertSkipped(cn, k) == cn

\* "insert the data into the child node": cn.Insert(key, value)
ChildInsert(cn, k) == NodeInsert(cn, k)

\* AfterChildInsert on the values of its arguments, each evaluated once
AfterChildInsertOn(w, f) ==
    CHOOSE r \in {AfterChildInsert(a, b) : a \in {w}, b \in {f}} : TRUE

\* the callback without the move to the child an entry's pivot names
CallbackKeepsChild(w, f, closeFails, getFails) ==
    LET n == At(w, f.block)
        ent == n.ents[f.i]
        g == IF ~f.cn
             THEN CacheGet(w, f.cblock, getFails)
             ELSE [w |-> w, le |-> f.cle, ok |-> TRUE]
        f2 == [f EXCEPT !.cle = g.le, !.cn = g.ok]
        cn == At(g.w, f2.cblock)
    IN  IF ~g.ok
        THEN [w |-> g.w, f |-> [f2 EXCEPT !.err = TRUE]]
        ELSE IF ~Fits(cn, FALSE)
        THEN [w |-> [g.w EXCEPT !.raised = TRUE], f |-> [f2 EXCEPT !.err = TRUE]]
        ELSE AfterChildInsertOn(Put(g.w, f2.cblock, ChildInsert(cn, ent.key)), f2)

\* The callback of n.Flush for the entry at f.i: move to the child the
\* entry's pivot names, lease it, insert the entry into it.
Callback(w, f, closeFails, getFails) ==
    LET n == At(w, f.block)
        ent == n.ents[f.i]
        switch == ent.pivot # noBlock /\ f.cblock # ent.pivot
        w1 == IF switch THEN LeaseClose(w, f.cle, closeFails) ELSE w
        f1 == IF switch
              THEN [f EXCEPT !.cle = ZeroLease, !.cblock = ent.pivot,
                             !.cfix = FALSE, !.cn = FALSE]
              ELSE f
        g == IF ~f1.cn
             THEN CacheGet(w1, f1.cblock, getFails)
             ELSE [w |-> w1, le |-> f1.cle, ok |-> TRUE]
        f2 == [f1 EXCEPT !.cle = g.le, !.cn = g.ok]
        cn == At(g.w, f2.cblock)
    IN  IF ~g.ok
        THEN [w |-> g.w, f |-> [f2 EXCEPT !.err = TRUE]]
        ELSE IF ~Fits(cn, FALSE)
        THEN [w |-> [g.w EXCEPT !.raised = TRUE], f |-> [f2 EXCEPT !.err = TRUE]]
        ELSE AfterChildInsertOn(Put(g.w, f2.cblock, ChildInsert(cn, ent.key)), f2)

\* One call of the callback by n.Flush.
FlushEntry ==
    /\ pc = "flush"
    /\ Top.ph = "iter"
    /\ ~Top.err
    /\ Top.i <= Len(At(World, Top.block).ents)
    /\ \E closeFails, getFails \in BOOLEAN :
          \E r \in {Callback(World, Top, closeFails, getFails)} :
              /\ r.w.faults <= MaxFaults
              /\ r.w.faults = faults + (IF closeFails THEN 1 ELSE 0)
                                     + (IF getFails THEN 1 ELSE 0)
              /\ Commit(r.w)
              /\ stack' = SetTop(r.f)
    /\ UNCHANGED <<maxBlock, pc, key, big, ret, hgt, ops, okKeys, sinceGrow,
                   rootFlushed, allOk, trace>>
    /\ WoslOnly

\* Node.Flush after the iteration: the node keeps the entries whose pivot
\* is not zero.
Rebuild(n) ==
    LET kept == SelectSeq(n.ents, LAMBDA e : e.pivot # noBlock)
    IN  [n EXCEPT !.ents = kept, !.len = Len(kept), !.dirty = TRUE]

\* the loop over the splits that stops before the last one
RECURSIVE AddSplitsButLast(_, _, _)
AddSplitsButLast(w, splits, i) ==
    IF i >= Len(splits) THEN w
    ELSE AddSplitsButLast(CacheAdd(w, splits[i].n, splits[i].block), splits, i + 1)

\* "add the new split nodes to the cache"
RECURSIVE AddSplits(_, _, _)
AddSplits(w, splits, i) ==
    IF i > Len(splits) THEN w
    ELSE AddSplits(CacheAdd(w, splits[i].n, splits[i].block), splits, i + 1)

\* flush after n.Flush returned: close the child lease, return the error if
\* there was one; otherwise finish the sibling under construction and add
\* the siblings to the cache.
FlushFinish ==
    /\ pc = "flush"
    /\ Top.ph = "iter"
    /\ Top.err \/ Top.i > Len(At(World, Top.block).ents)
    /\ \E closeFails \in BOOLEAN :
          LET f == Top
              w1 == LeaseClose(World, f.cle, closeFails)
              f1 == [f EXCEPT !.cle = ZeroLease, !.cn = FALSE, !.ents0 = <<>>]
              n == At(w1, f.block)
              w2 == Put(w1, f.block, Rebuild(n))
              splits == Append(f.splits,
                               [block |-> f.maxBlock + 1,
                                n |-> BulkDone(f.bulk, n.next, n.height),
                                leader |-> f.leader])
              w3 == AddSplits(w2, splits, 1)
          IN  /\ w1.faults <= MaxFaults
              /\ w1.faults = faults + (IF closeFails THEN 1 ELSE 0)
              /\ IF f.err
                 THEN /\ Commit(w1)
                      /\ stack' = SetTop([f1 EXCEPT !.ph = "ret"])
                      /\ pc' = pc
                 ELSE IF f.leader # 0
                 THEN /\ Commit(w3)
                      /\ stack' = SetTop([f1 EXCEPT !.ph = "fixpar",
                                                    !.maxBlock = f.maxBlock + 1,
                                                    !.splits = splits,
                                                    !.pivot = f.block,
                                                    !.tmpSplits = splits])
                      /\ pc' = IF w3.panic THEN "panic" ELSE pc
                 ELSE /\ Commit(w2)
                      /\ stack' = SetTop([f1 EXCEPT !.ph = "fixups"])
                      /\ pc' = pc
    /\ UNCHANGED <<maxBlock, key, big, ret, hgt, ops, okKeys, sinceGrow,
                   rootFlushed, allOk, trace>>
    /\ WoslOnly

\* Node.Update with the callback of the parent fix-up: an entry whose pivot
\* is the split block moves to the next sibling once its key has reached
\* that sibling's leader.
RECURSIVE UpdateEnts(_, _, _, _, _)
UpdateEnts(ents, i, block, pivot, tmp) ==
    IF i > Len(ents) THEN [ents |-> ents, pivot |-> pivot, tmp |-> tmp]
    ELSE IF ents[i].pivot # block THEN UpdateEnts(ents, i + 1, block, pivot, tmp)
    ELSE LET adv == Len(tmp) > 0 /\ ents[i].key >= tmp[1].leader
             p2 == IF adv THEN tmp[1].block ELSE pivot
             t2 == IF adv THEN Tail(tmp) ELSE tmp
         IN  UpdateEnts([ents EXCEPT ![i].pivot = p2], i + 1, block, p2, t2)

\* One iteration of "for _, parent := range parents".
FlushFixParent ==
    /\ pc = "flush"
    /\ Top.ph = "fixpar"
    /\ Top.pi <= Len(Top.parents)
    /\ \E closeFails, getFails \in BOOLEAN :
          LET f == Top
              g == CacheGet(World, f.parents[f.pi], getFails)
              pn == At(g.w, f.parents[f.pi])
              u == UpdateEnts(pn.ents, 1, f.block, f.pivot, f.tmpSplits)
              w1 == Put(g.w, f.parents[f.pi],
                        [pn EXCEPT !.ents = u.ents, !.dirty = TRUE])
              w2 == LeaseClose(w1, g.le, closeFails)
              wz == IF g.ok THEN w2 ELSE g.w
          IN  /\ wz.faults <= MaxFaults
              /\ wz.faults = faults + (IF closeFails THEN 1 ELSE 0)
                                    + (IF getFails THEN 1 ELSE 0)
              /\ Commit(wz)
              /\ stack' = SetTop(IF g.ok
                                 THEN [f EXCEPT !.pi = f.pi + 1,
                                                !.pivot = u.pivot,
                                                !.tmpSplits = u.tmp]
                                 ELSE [f EXCEPT !.err = TRUE, !.ph = "ret"])
    /\ UNCHANGED <<maxBlock, pc, key, big, ret, hgt, ops, okKeys, sinceGrow,
                   rootFlushed, allOk, trace>>
    /\ WoslOnly

\* "update the maxBlock since we allocated some blocks"
FlushCommit ==
    /\ pc = "flush"
    /\ Top.ph = "fixpar"
    /\ Top.pi > Len(Top.parents)
    /\ maxBlock' = Top.maxBlock
    /\ stack' = SetTop([Top EXCEPT !.ph = "fixups"])
    /\ UNCHANGED <<root, nodes, leases, disk, pc, key, big, ret, hgt, ops,
                   faults, okKeys, sinceGrow, rootFlushed, allOk, trace,
                   leaseLog, raised>>
    /\ WoslOnly

\* the parents of the children: the flushed block and its new siblings
ChildParents(f) ==
    <<f.block>> \o [j \in 1..Len(f.splits) |-> f.splits[j].block]

\* flush without the special case of height 1
AtLeavesNever(f) == FALSE

\* "if nh == 1": the children of the flushed node are leaves.
AtLeaves(f) == At(World, f.block).height = 1

\* a recursive call that is given the flushed node again
FixupFrameSelf(f, le) == Frame(f.block, f.parents)

\* "err = t.flush(le.Node(), le.Block(), parents)": the activation record of
\* the recursive call on the leased fixup child.
FixupFrame(f, le) == Frame(le.block, ChildParents(f))

\* One iteration of "for _, fixup := range fixups" up to the recursive call.
FlushFixup ==
    /\ pc = "flush"
    /\ Top.ph = "fixups"
    /\ ~AtLeaves(Top)
    /\ Top.fi <= Len(Top.fixups)
    /\ \E getFails \in BOOLEAN :
          LET f == Top
              g == CacheGet(World, f.fixups[f.fi], getFails)
          IN  /\ g.w.faults <= MaxFaults
              /\ Commit(g.w)
              /\ stack' = IF g.ok
                          THEN Append(SetTop([f EXCEPT !.le = g.le]),
                                      FixupFrame(f, g.le))
                          ELSE SetTop([f EXCEPT !.err = TRUE, !.ph = "ret"])
    /\ UNCHANGED <<maxBlock, pc, key, big, ret, hgt, ops, okKeys, sinceGrow,
                   rootFlushed, allOk, trace>>
    /\ WoslOnly

\* T.rebalance, called for a node of height 1 instead of the recursion.
Rebalance ==
    /\ pc = "flush"
    /\ Top.ph = "fixups"
    /\ AtLeaves(Top)
    /\ Len(Top.fixups) > 0
    /\ stack' = SetTop([Top EXCEPT !.ph = "ret"])
    /\ trace' = Append(trace, "rebalance")
    /\ UNCHANGED <<root, nodes, leases, disk, maxBlock, pc, key, big, ret, hgt,
                   ops, faults, okKeys, sinceGrow, rootFlushed, allOk,
                   leaseLog, raised>>
    /\ WoslOnly

FlushOver(f) ==
    \/ f.ph = "ret"
    \/ /\ f.ph = "fixups"
       /\ \/ Len(f.fixups) = 0
          \/ ~AtLeaves(f) /\ f.fi > Len(f.fixups)

\* flush returning to a caller that looks at the error before it closes the
\* fixup's lease
FlushReturnErrFirst ==
    /\ pc = "flush"
    /\ FlushOver(Top)
    /\ IF Len(stack) = 1
       THEN /\ Return(IF Top.err THEN "err" ELSE "nil")
            /\ UNCHANGED <<root, nodes, leases, disk, leaseLog, faults, raised>>
       ELSE \E closeFails \in BOOLEAN :
              LET c == stack[Len(stack) - 1]
                  w1 == IF Top.err THEN World ELSE LeaseClose(World, c.le, closeFails)
                  c1 == IF Top.err
                        THEN [c EXCEPT !.err = TRUE, !.ph = "ret"]
                        ELSE [c EXCEPT !.le = ZeroLease, !.fi = c.fi + 1]
              IN  /\ w1.faults <= MaxFaults
                  /\ w1.faults = faults + (IF closeFails /\ ~Top.err THEN 1 ELSE 0)
                  /\ Commit(w1)
                  /\ stack' = Append(SubSeq(stack, 1, Len(stack) - 2), c1)
                  /\ UNCHANGED <<pc, ret, allOk, okKeys, sinceGrow>>
    /\ UNCHANGED <<maxBlock, key, big, hgt, ops, rootFlushed, trace>>
    /\ WoslOnly

\* flush returns: to Insert, or to the flush that called it for a fixup,
\* which closes the fixup's lease and then looks at the error.
FlushReturn ==
    /\ pc = "flush"
    /\ FlushOver(Top)
    /\ IF Len(stack) = 1
       THEN /\ Return(IF Top.err THEN "err" ELSE "nil")
            /\ UNCHANGED <<root, nodes, leases, disk, leaseLog, faults, raised>>
       ELSE \E closeFails \in BOOLEAN :
              LET c == stack[Len(stack) - 1]
                  w1 == LeaseClose(World, c.le, closeFails)
                  c1 == IF Top.err
                        THEN [c EXCEPT !.le = ZeroLease, !.err = TRUE, !.ph = "ret"]
                        ELSE [c EXCEPT !.le = ZeroLease, !.fi = c.fi + 1]
              IN  /\ w1.faults <= MaxFaults
                  /\ w1.faults = faults + (IF closeFails THEN 1 ELSE 0)
                  /\ Commit(w1)
                  /\ stack' = Append(SubSeq(stack, 1, Len(stack) - 2), c1)
                  /\ UNCHANGED <<pc, ret, allOk, okKeys, sinceGrow>>
    /\ UNCHANGED <<maxBlock, key, big, hgt, ops, rootFlushed, trace>>
    /\ WoslOnly

\* ---------------------------------------------------------------- lease.T

\* The callbacks a lease may carry: none (nil), one that returns nil and
\* one that returns an error.
Callbacks == {"none", "ok", "fails"}

\* lease.T{}
ZeroT == [n |-> 0, block |-> noBlock, cb |-> "none"]

\* lease.New
TNew(n, block, cb) == [n |-> n, block |-> block, cb |-> cb]

\* lease.T.Zero
TZero(t) == t.cb = "none"

\* lease.T.SetNode
TSetNode(t, n) == [t EXCEPT !.n = n]

\* Close that clears the lease only when the callback returned nil
TCloseKeepsOnError(t) ==
    [t |-> IF t.cb = "fails" THEN t ELSE ZeroT,
     called |-> IF t.cb # "none" THEN <<(<<t.n, t.block>>)>> ELSE <<>>,
     err |-> IF t.cb = "fails" THEN "err" ELSE "nil"]

\* lease.T.Close: the callback is called when there is one, the lease is
\* cleared either way, and the callback's error is returned.
TClose(t) ==
    [t |-> ZeroT,
     called |-> IF t.cb # "none" THEN <<(<<t.n, t.block>>)>> ELSE <<>>,
     err |-> IF t.cb = "fails" THEN "err" ELSE "nil"]

\* a call on the lease: nothing else moves
LeaseOnly == UNCHANGED <<woslVars, memVars, libVars>>

TNewCall(n, block, cb) ==
    /\ lops < MaxOps
    /\ lops' = lops + 1
    /\ lt' = TNew(n, block, cb)
    /\ acq' = TNew(n, block, cb)
    /\ cbLog' = <<>>
    /\ closeRet' = <<>>
    /\ LeaseOnly

TSetNodeCall(n) ==
    /\ lops < MaxOps
    /\ lops' = lops + 1
    /\ lt' = TSetNode(lt, n)
    /\ UNCHANGED <<acq, cbLog, closeRet>>
    /\ LeaseOnly

TCloseCall ==
    /\ lops < MaxOps
    /\ lops' = lops + 1
    /\ lt' = TClose(lt).t
    /\ cbLog' = cbLog \o TClose(lt).called
    /\ closeRet' = Append(closeRet, TClose(lt).err)
    /\ UNCHANGED acq
    /\ LeaseOnly

\* --------------------------------------------------------------- memCache

Blocks == 1..MaxBlocks

\* a Go map: the value at a key, the zero value when the key is missing
MapGet(m, k) == IF k \in DOMAIN m THEN m[k] ELSE 0

MapSet(m, k, v) == [x \in DOMAIN m \cup {k} |-> IF x = k THEN v ELSE m[x]]

MapDelete(m, k) == [x \in DOMAIN m \ {k} |-> m[x]]

\* The cache, its disk and the nodes in memory as one record.
Mem ==
    [nodes |-> mNodes, leases |-> mLeases, blocks |-> mBlocks, max |-> mMax,
     heap |-> heap, state |-> mState, err |-> FALSE]

MemCommit(m) ==
    /\ mNodes' = m.nodes
    /\ mLeases' = m.leases
    /\ mBlocks' = m.blocks
    /\ mMax' = m.max
    /\ heap' = m.heap
    /\ mState' = m.state
    /\ mErr' = m.err

\* memDisk.Write with data of the block size
MemDiskWrite(m, block, data) ==
    [m EXCEPT !.blocks = MapSet(m.blocks, block, data),
              !.max = IF block > m.max THEN block ELSE m.max]

\* memCache.writeBack of the node instance n for a block: one lease less;
\* a count below zero panics, a count of zero is deleted and the node is
\* written to the disk (Write clears its dirty flag), which may fail.
MemWriteBack(m, n, block, fail) ==
    LET l == MapGet(m.leases, block) - 1
    IN  IF l < 0
        THEN [m EXCEPT !.leases = MapSet(m.leases, block, l), !.state = "panic"]
        ELSE IF l > 0
        THEN [m EXCEPT !.leases = MapSet(m.leases, block, l)]
        ELSE IF fail
        THEN [m EXCEPT !.leases = MapDelete(m.leases, block), !.err = TRUE]
        ELSE MemDiskWrite([m EXCEPT !.leases = MapDelete(m.leases, block),
                                    !.heap[n].dirty = FALSE],
                          block, m.heap[n].val)

\* memCache.Flush: writeBack for every dirty node of m.nodes, in the order
\* the map is ranged over; the first error (or a panic) ends it.
RECURSIVE MemFlush(_, _, _)
MemFlush(m, order, failAt) ==
    IF order = <<>> \/ m.err \/ m.state = "panic" THEN m
    ELSE LET block == Head(order)
             n == m.nodes[block]
         IN  IF ~m.heap[n].dirty
             THEN MemFlush(m, Tail(order), failAt)
             ELSE MemFlush(MemWriteBack(m, n, block, block = failAt),
                           Tail(order), failAt)

\* memCache.Add
MemAdd(m, n, block) ==
    IF block \in DOMAIN m.nodes
    THEN [m EXCEPT !.state = "panic"]
    ELSE [m EXCEPT !.nodes = MapSet(m.nodes, block, n)]

\* memCache.Get: the cached node, or else a node loaded from the disk's
\* data, which is not put into m.nodes; an error when the disk has no data.
MemGet(m, block) ==
    IF block \in DOMAIN m.nodes
    THEN [m |-> [m EXCEPT !.leases = MapSet(m.leases, block,
                                            MapGet(m.leases, block) + 1)],
          n |-> m.nodes[block]]
    ELSE IF block \notin DOMAIN m.blocks
    THEN [m |-> [m EXCEPT !.err = TRUE], n |-> 0]
    ELSE [m |-> [m EXCEPT !.heap = Append(m.heap, [val |-> m.blocks[block],
                                                   dirty |-> FALSE]),
                          !.leases = MapSet(m.leases, block,
                                            MapGet(m.leases, block) + 1)],
          n |-> Len(m.heap) + 1]

\* a call on the cache or its disk: nothing else moves
MemCall ==
    /\ mState = "ok"
    /\ mops < MaxOps
    /\ mops' = mops + 1
    /\ UNCHANGED <<woslVars, leaseVars, libVars>>

\* cache.Add(n, block) with a node just made
MemAddCall(block, dirty) ==
    /\ MemCall
    /\ LET m == [Mem EXCEPT !.heap = Append(heap, [val |-> 0, dirty |-> dirty])]
       IN  MemCommit(MemAdd(m, Len(heap) + 1, block))
    /\ mLast' = "add"
    /\ UNCHANGED held

\* cache.Get(block); the caller keeps the lease
MemGetCall(block) ==
    /\ MemCall
    /\ LET g == MemGet(Mem, block)
       IN  /\ MemCommit(g.m)
           /\ held' = IF g.m.err THEN held
                      ELSE Append(held, [n |-> g.n, block |-> block])
    /\ mLast' = "get"

\* the holder of a lease changes its node: le.Node().Insert(...)
MemMutateCall(i) ==
    /\ MemCall
    /\ MemCommit([Mem EXCEPT !.heap[held[i].n] =
                                 [val |-> heap[held[i].n].val + 1, dirty |-> TRUE]])
    /\ mLast' = "mutate"
    /\ UNCHANGED held

\* the holder of a lease closes it: the callback is memCache.writeBack
MemCloseCall(i, fail) ==
    /\ MemCall
    /\ MemCommit(MemWriteBack(Mem, held[i].n, held[i].block, fail))
    /\ held' = SubSeq(held, 1, i - 1) \o SubSeq(held, i + 1, Len(held))
    /\ mLast' = "close"

\* the orders a range over the keys of a map can take
Orders(S) ==
    {o \in [1..Cardinality(S) -> S] : \A x \in S : \E j \in DOMAIN o : o[j] = x}

\* cache.Flush()
MemFlushCall ==
    /\ MemCall
    /\ \E order \in Orders(DOMAIN mNodes), failAt \in {noBlock} \cup DOMAIN mNodes :
          /\ MemCommit(MemFlush(Mem, order, failAt))
          /\ mLast' = IF failAt = noBlock THEN "flush" ELSE "flushfail"
    /\ UNCHANGED held

\* cache.Disk().Write(block, data), as T.writeNode does
MemDiskWriteCall(block) ==
    /\ MemCall
    /\ MemCommit(MemDiskWrite(Mem, block, 0))
    /\ mLast' = "write"
    /\ UNCHANGED held

\* ------------------------------------------------------------------ btree

\* The in-memory B+ tree of package btree. A key is a number that stands
\* for a byte string, in the order of bytes.Compare; the entry keeps the
\* first four bytes of its key, which neighbouring keys share.
BKeys == 1..MaxBKey

\* entry.New: the prefix copied from the key
Prefix(k) == (k + 1) \div 2

\* entry.New(key, value, tombstone, offset): no pivot
BEntry(k, vlen, tomb, offset) ==
    [key |-> k, vlen |-> vlen, tomb |-> tomb, offset |-> offset, pivot |-> 0]

compare(a, b) == IF a = b THEN 0 ELSE IF a < b THEN -1 ELSE 1

\* the zero btree.T
ZeroBtree == [rooted |-> FALSE, rid |-> 0, count |-> 0, nodes |-> <<>>]

\* b.nodes[id]
BNode(b, id) == b.nodes[id + 1]

SetBNode(b, id, n) == [b EXCEPT !.nodes[id + 1] = n]

\* T.alloc: a fresh node at the end of b.nodes
alloc(b, leaf) ==
    [b |-> [b EXCEPT !.nodes = Append(@, [next |-> invalidNode,
                                          prev |-> invalidNode,
                                          parent |-> invalidNode,
                                          leaf |-> leaf,
                                          payload |-> <<>>])],
     id |-> Len(b.nodes)]

\* the binary search of T.search in one node: the index of the child
RECURSIVE searchIndex(_, _, _, _)
searchIndex(payload, k, i, j) ==
    IF i >= j THEN i
    ELSE LET h == (i + j) \div 2
             enth == payload[h + 1]
             c == compare(Prefix(k), Prefix(enth.key))
         IN  IF c = 1 THEN searchIndex(payload, k, h + 1, j)
             ELSE IF c = 0
             THEN IF compare(k, enth.key) >= 0
                  THEN searchIndex(payload, k, h + 1, j)
                  ELSE searchIndex(payload, k, i, h)
             ELSE searchIndex(payload, k, i, h)

\* T.search: the id of the leaf that should contain the key
RECURSIVE searchFrom(_, _, _)
searchFrom(b, k, nid) ==
    LET n == BNode(b, nid)
        i == searchIndex(n.payload, k, 0, Len(n.payload))
    IN  IF n.leaf THEN nid
        ELSE searchFrom(b, k, IF i = Len(n.payload) THEN n.next
                              ELSE n.payload[i + 1].pivot)

search(b, k) == searchFrom(b, k, b.rid)

\* the binary search of node.insertEntry: the prefix is the entry's, the
\* key is the caller's
RECURSIVE insertIndex(_, _, _, _, _)
insertIndex(payload, k, prefix, i, j) ==
    IF i >= j THEN [i |-> i, match |-> FALSE]
    ELSE LET h == (i + j) \div 2
             enth == payload[h + 1]
             c == compare(prefix, Prefix(enth.key))
             ck == compare(k, enth.key)
         IN  IF c = 1 THEN insertIndex(payload, k, prefix, h + 1, j)
             ELSE IF c = -1 THEN insertIndex(payload, k, prefix, i, h)
             ELSE IF ck = 1 THEN insertIndex(payload, k, prefix, h + 1, j)
             ELSE IF ck = -1 THEN insertIndex(payload, k, prefix, i, h)
             ELSE [i |-> h, match |-> TRUE]

\* node.insertEntry without the retained pivot: a match is overwritten whole
insertEntryTakesPivot(n, k, ent) ==
    LET r == insertIndex(n.payload, k, Prefix(ent.key), 0, Len(n.payload))
    IN  IF r.match
        THEN [n |-> [n EXCEPT !.payload[r.i + 1] = ent], added |-> FALSE]
        ELSE [n |-> [n EXCEPT !.payload = SubSeq(@, 1, r.i) \o <<ent>>
                                          \o SubSeq(@, r.i + 1, Len(@))],
              added |-> TRUE]

\* node.insertEntry: a match is overwritten and keeps its pivot; otherwise
\* the entry is put at its place and the count grows
insertEntry(n, k, ent) ==
    LET r == insertIndex(n.payload, k, Prefix(ent.key), 0, Len(n.payload))
    IN  IF r.match
        THEN [n |-> [n EXCEPT !.payload[r.i + 1] =
                                  [ent EXCEPT !.pivot = n.payload[r.i + 1].pivot]],
              added |-> FALSE]
        ELSE [n |-> [n EXCEPT !.payload = SubSeq(@, 1, r.i) \o <<ent>>
                                          \o SubSeq(@, r.i + 1, Len(@))],
              added |-> TRUE]

\* node.appendEntry putting the entry over the last one of a node with entries
appendEntryOverLast(n, ent) ==
    IF n.payload = <<>> THEN [n EXCEPT !.payload = <<ent>>]
    ELSE [n EXCEPT !.payload[Len(n.payload)] = ent]

\* node.appendEntry
appendEntry(n, ent) == [n EXCEPT !.payload = Append(@, ent)]

\* the parent of every node in ids becomes sid
RECURSIVE SetParents(_, _, _)
SetParents(b, ids, sid) ==
    IF ids = <<>> THEN b
    ELSE SetParents([b EXCEPT !.nodes[Head(ids) + 1].parent = sid], Tail(ids), sid)

\* T.split of a full node: a new node s with the smaller half of the keys
split(b, nid) ==
    LET n == BNode(b, nid)
        a == alloc(b, n.leaf)
        sid == a.id
        small == SubSeq(n.payload, 1, payloadSplit)
        copyAt == IF n.leaf THEN payloadSplit ELSE payloadSplit + 1
        rest == SubSeq(n.payload, copyAt + 1, payloadEntries)
        s0 == [BNode(a.b, sid) EXCEPT !.parent = n.parent, !.payload = small]
    IN  IF ~n.leaf
        THEN LET s == [s0 EXCEPT !.next = n.payload[payloadSplit + 1].pivot]
                 b1 == SetBNode(a.b, sid, s)
                 b2 == SetParents(b1, <<s.next>> \o [i \in 1..Len(small) |->
                                                        small[i].pivot], sid)
             IN  [b |-> [b2 EXCEPT !.nodes[nid + 1].payload = rest], sid |-> sid]
        ELSE LET s == [s0 EXCEPT !.next = nid,
                                 !.prev = IF n.prev # invalidNode THEN n.prev ELSE @]
                 b1 == SetBNode(a.b, sid, s)
                 b2 == IF n.prev # invalidNode
                       THEN [b1 EXCEPT !.nodes[n.prev + 1].next = sid]
                       ELSE b1
             IN  [b |-> [b2 EXCEPT !.nodes[nid + 1].prev = sid,
                                   !.nodes[nid + 1].payload = rest],
                  sid |-> sid]

\* the parent of a split that leaves the new node without the new root as
\* its parent
splitParentForgetsSplit(b, nid, sid) ==
    LET n == BNode(b, nid)
        a == alloc(b, FALSE)
    IN  IF n.parent # invalidNode
        THEN [b |-> b, pid |-> n.parent]
        ELSE [b |-> [a.b EXCEPT !.nodes[a.id + 1].next = nid,
                                !.nodes[nid + 1].parent = a.id,
                                !.rooted = TRUE,
                                !.rid = a.id],
              pid |-> a.id]

\* after a split of node nid in T.Insert and T.append: the parent the split
\* entry goes to, a new root when the node was the root
splitParent(b, nid, sid) ==
    LET n == BNode(b, nid)
        a == alloc(b, FALSE)
    IN  IF n.parent # invalidNode
        THEN [b |-> b, pid |-> n.parent]
        ELSE [b |-> [a.b EXCEPT !.nodes[a.id + 1].next = nid,
                                !.nodes[nid + 1].parent = a.id,
                                !.nodes[sid + 1].parent = a.id,
                                !.rooted = TRUE,
                                !.rid = a.id],
              pid |-> a.id]

\* the loop of T.Insert from node nid on; k stays the key of the call
RECURSIVE insertLoop(_, _, _, _)
insertLoop(b, k, ent, nid) ==
    LET r == insertEntry(BNode(b, nid), k, ent)
        b1 == [SetBNode(b, nid, r.n) EXCEPT
                  !.count = IF r.added /\ r.n.leaf THEN @ + 1 ELSE @]
        up == r.n.payload[payloadSplit + 1]
        sp == split(b1, nid)
        p == splitParent(sp.b, nid, sp.sid)
    IN  IF Len(r.n.payload) < payloadEntries
        THEN [b |-> b1, added |-> r.added]
        ELSE insertLoop(p.b, k, [up EXCEPT !.pivot = sp.sid], p.pid)

\* T.Insert counting every call
BtInsertCountsAll(b, ent) ==
    LET a == alloc(b, TRUE)
        r == insertLoop(b, ent.key, ent, search(b, ent.key))
    IN  IF ~b.rooted
        THEN [b |-> [SetBNode(a.b, a.id, insertEntry(BNode(a.b, a.id), ent.key, ent).n)
                        EXCEPT !.rooted = TRUE, !.rid = a.id, !.count = @ + 1],
              added |-> TRUE]
        ELSE [r EXCEPT !.b.count = b.count + 1]

\* T.Insert
BtInsert(b, ent) ==
    LET a == alloc(b, TRUE)
    IN  IF ~b.rooted
        THEN [b |-> [SetBNode(a.b, a.id, insertEntry(BNode(a.b, a.id), ent.key, ent).n)
                        EXCEPT !.rooted = TRUE, !.rid = a.id, !.count = @ + 1],
              added |-> TRUE]
        ELSE insertLoop(b, ent.key, ent, search(b, ent.key))

\* T.append: the loop of T.Insert with appendEntry
RECURSIVE append(_, _, _)
append(b, nid, ent) ==
    LET n == appendEntry(BNode(b, nid), ent)
        b1 == [SetBNode(b, nid, n) EXCEPT !.count = @ + 1]
        up == n.payload[payloadSplit + 1]
        sp == split(b1, nid)
        p == splitParent(sp.b, nid, sp.sid)
    IN  IF Len(n.payload) < payloadEntries THEN b1
        ELSE append(p.b, p.pid, [up EXCEPT !.pivot = sp.sid])

\* The Bulk of package btree: its tree, and the node it appends to.
ZeroBulk == [b |-> ZeroBtree, n |-> FALSE, nid |-> 0]

\* Bulk.Append
BulkAppend(bk, ent) ==
    LET a == alloc(bk.b, TRUE)
        bk1 == IF ~bk.n
               THEN [b |-> [a.b EXCEPT !.rooted = TRUE, !.rid = a.id],
                     n |-> TRUE, nid |-> a.id]
               ELSE bk
    IN  [bk1 EXCEPT !.b = append(bk1.b, bk1.nid, ent)]

\* Bulk.Done
BulkTree(bk) == bk.b

\* the keys a Bulk has been given
BulkKeys(bk) ==
    UNION {{n.payload[i].key : i \in DOMAIN n.payload} :
              n \in {bk.b.nodes[j] : j \in {i \in DOMAIN bk.b.nodes : bk.b.nodes[i].leaf}}}

\* the descent of T.Iter and T.Iterator taking the rightmost edge
RECURSIVE leftmostTakesNext(_, _)
leftmostTakesNext(b, nid) ==
    LET n == BNode(b, nid)
    IN  IF n.leaf THEN nid ELSE leftmostTakesNext(b, n.next)

\* the deepest leftmost node, as T.Iter and T.Iterator find it
RECURSIVE leftmost(_, _)
leftmost(b, nid) ==
    LET n == BNode(b, nid)
    IN  IF n.leaf THEN nid
        ELSE leftmost(b, IF Len(n.payload) = 0 THEN n.next ELSE n.payload[1].pivot)

\* the entries T.Iter hands to a callback that always returns true; steps
\* bounds the leaves walked
RECURSIVE iterFrom(_, _, _)
iterFrom(b, nid, steps) ==
    LET n == BNode(b, nid)
    IN  IF steps = 0 THEN <<>>
        ELSE n.payload \o (IF n.next = invalidNode THEN <<>>
                           ELSE iterFrom(b, n.next, steps - 1))

\* T.Iter
Iter(b) ==
    IF ~b.rooted THEN <<>>
    ELSE iterFrom(b, leftmost(b, b.rid), Len(b.nodes) + 1)

\* T.Iterator: no node for the empty tree, else the leftmost leaf with the
\* uint16 index at -1
Iterator(b) ==
    IF ~b.rooted THEN [n |-> FALSE, nid |-> 0, i |-> 0]
    ELSE [n |-> TRUE, nid |-> leftmost(b, b.rid), i |-> 65535]

\* the part of Iterator.Next from the label next on
RECURSIVE nextFrom(_, _, _)
nextFrom(b, it, steps) ==
    LET n == BNode(b, it.nid)
    IN  IF it.i < Len(n.payload) THEN [it |-> it, ok |-> TRUE]
        ELSE IF n.next = invalidNode \/ steps = 0
        THEN [it |-> [it EXCEPT !.n = FALSE], ok |-> FALSE]
        ELSE nextFrom(b, [it EXCEPT !.nid = n.next, !.i = 0], steps - 1)

\* Iterator.Next
IteratorNext(b, it) ==
    IF ~it.n THEN [it |-> it, ok |-> FALSE]
    ELSE nextFrom(b, [it EXCEPT !.i = (@ + 1) % 65536], Len(b.nodes) + 1)

\* Iterator.Entry
IteratorEntry(b, it) == BNode(b, it.nid).payload[it.i + 1]

\* the entries of the loop: for it.Next() { it.Entry() }
RECURSIVE drain(_, _, _)
drain(b, it, steps) ==
    LET r == IteratorNext(b, it)
    IN  IF ~r.ok \/ steps = 0 THEN <<>>
        ELSE <<IteratorEntry(b, r.it)>> \o drain(b, r.it, steps - 1)

IteratorAll(b) == drain(b, Iterator(b), payloadEntries * (Len(b.nodes) + 1))

\* the keys of a sequence of entries
EntryKeys(ents) == [i \in DOMAIN ents |-> ents[i].key]

BtreeOnly == UNCHANGED <<woslVars, leaseVars, memVars, bn, nd, hg, en, cnode>>

\* b.Insert(ent, buf) with an entry of the key
BtInsertCall(k, tomb) ==
    /\ LET r == BtInsert(bt, BEntry(k, 1, tomb, k))
       IN  /\ bt' = r.b
           /\ bLast' = [op |-> "insert", key |-> k, added |-> r.added,
                        fresh |-> k \notin bKeys, before |-> bt.count]
    /\ bKeys' = bKeys \cup {k}
    /\ UNCHANGED bBulk
    /\ BtreeOnly

\* b.Reset()
BtResetCall ==
    /\ bt' = ZeroBtree
    /\ bKeys' = {}
    /\ bLast' = [op |-> "reset", key |-> 0, added |-> FALSE, fresh |-> FALSE,
                 before |-> bt.count]
    /\ UNCHANGED bBulk
    /\ BtreeOnly

\* bulk.Append(ent) of an entry above every earlier one, and the same entry
\* inserted into a second tree
BulkAppendCall(k, tomb) ==
    /\ \A x \in bKeys : x < k
    /\ bBulk' = BulkAppend(bBulk, BEntry(k, 1, tomb, k))
    /\ bt' = BtInsert(bt, BEntry(k, 1, tomb, k)).b
    /\ bKeys' = bKeys \cup {k}
    /\ bLast' = [op |-> "append", key |-> k, added |-> TRUE, fresh |-> TRUE,
                 before |-> bt.count]
    /\ BtreeOnly

\* T.Write: the root id, the count and the number of nodes in the header,
\* then the nodes copied one after the other
BtWrite(b) ==
    [rid |-> b.rid, count |-> b.count, ncount |-> Len(b.nodes), nodes |-> b.nodes]

\* btree.Load: an error when the root id is not below the number of nodes or
\* the buffer is too short for the nodes, else the tree over the buffer
BtLoad(buf) ==
    IF buf.rid >= buf.ncount \/ Len(buf.nodes) < buf.ncount
    THEN [err |-> TRUE, b |-> ZeroBtree]
    ELSE [err |-> FALSE,
          b |-> [rooted |-> TRUE, rid |-> buf.rid, count |-> buf.count,
                 nodes |-> SubSeq(buf.nodes, 1, buf.ncount)]]

\* data := bt.Write(nil); bt, err := Load(data), of the tree or of the tree
\* of the Bulk once it holds every key
BtWriteLoadCall(bulk) ==
    /\ bulk => BulkKeys(bBulk) = bKeys
    /\ LET from == IF bulk THEN BulkTree(bBulk) ELSE bt
           r == BtLoad(BtWrite(from))
       IN  /\ bt' = r.b
           /\ bLast' = [op |-> "load", key |-> 0, added |-> FALSE, fresh |-> FALSE,
                        before |-> from.count, err |-> r.err, bulk |-> bulk]
    /\ UNCHANGED <<bBulk, bKeys>>
    /\ BtreeOnly

\* the keys given to a single node
NKeys == 1..MaxNKey

\* a fresh leaf, as alloc makes it
NewBNode == BNode(alloc(ZeroBtree, TRUE).b, 0)

\* n.insertEntry(key, ent, buf) on a node that has room, with an entry of
\* the key whose pivot the caller has set
InsertEntryCall(k, vlen, tomb, pivot) ==
    /\ Len(bn.node.payload) < payloadEntries
    /\ LET ent == [BEntry(k, vlen, tomb, 10 * vlen + k) EXCEPT !.pivot = pivot]
           r == insertEntry(bn.node, k, ent)
       IN  bn' = [op |-> "insert", node |-> r.n, before |-> bn.node, key |-> k,
                  ent |-> ent, added |-> r.added]
    /\ UNCHANGED <<woslVars, leaseVars, memVars, btreeVars, nd, hg, en, cnode>>

\* ----------------------------------------------------------------- node.T

\* The node of package node with a table of offsets (Load keeps the buffer
\* as cbuf) and its entries. Buffers are sequences of bytes. A byte string
\* given by a caller is len copies of one byte, so that a string longer
\* than an entry can hold is never spelled out.
Run(len, byte) == [len |-> len, byte |-> byte]

Bytes(r) == [i \in 1..r.len |-> r.byte]

\* binary.BigEndian.PutUint32 and binary.LittleEndian.PutUint32
BE32(x) == <<(x \div 16777216) % 256, (x \div 65536) % 256, (x \div 256) % 256, x % 256>>

LE32(x) == <<x % 256, (x \div 256) % 256, (x \div 65536) % 256, (x \div 16777216) % 256>>

\* binary.BigEndian.Uint32 and binary.LittleEndian.Uint32 of the four bytes
\* after the first off bytes
FromBE32(buf, off) ==
    buf[off + 1] * 16777216 + buf[off + 2] * 65536 + buf[off + 3] * 256 + buf[off + 4]

FromLE32(buf, off) ==
    buf[off + 1] + buf[off + 2] * 256 + buf[off + 3] * 65536 + buf[off + 4] * 16777216

\* bytes.Compare
RECURSIVE BytesCompare(_, _)
BytesCompare(a, b) ==
    IF a = <<>> /\ b = <<>> THEN 0
    ELSE IF a = <<>> THEN -1
    ELSE IF b = <<>> THEN 1
    ELSE IF Head(a) < Head(b) THEN -1
    ELSE IF Head(a) > Head(b) THEN 1
    ELSE BytesCompare(Tail(a), Tail(b))

\* math.MaxUint32 as two halves of 16 bits, and x < it for a smaller x
MaxUint32 == [hi |-> 65535, lo |-> 65535]

Below(x, w) ==
    \/ x \div 65536 < w.hi
    \/ x \div 65536 = w.hi /\ x % 65536 < w.lo

\* newEntry: the lengths and the kind packed into kvk, the first four bytes
\* of the key as prefix, no pivot
newEntry(k, v, kind, offset) ==
    [kvk |-> (Len(k) % (keyMask + 1)) + (Len(v) % (valueMask + 1)) * (keyMask + 1)
                 + (kind % 4) * ((keyMask + 1) * (valueMask + 1)),
     pivot |-> 0,
     prefix |-> [i \in 1..4 |-> IF i <= Len(k) THEN k[i] ELSE 0],
     offset |-> offset]

\* kvk.key, kvk.value and kvk.kind
entKey(e) == e.kvk % (keyMask + 1)

entValue(e) == (e.kvk \div (keyMask + 1)) % (valueMask + 1)

entKind(e) == (e.kvk \div ((keyMask + 1) * (valueMask + 1))) % 4

\* entry.header
entHeader(e) == LE32(e.kvk) \o LE32(e.pivot) \o e.prefix

\* entry.readKey and entry.readValue: the bytes at the entry's offset
readKey(e, buf) == SubSeq(buf, e.offset + 1, e.offset + entKey(e))

readValue(e, buf) ==
    SubSeq(buf, e.offset + entKey(e) + 1, e.offset + entKey(e) + entValue(e))

\* readEntry: the entry whose header is offset bytes into buf
readEntry(offset, buf) ==
    IF Len(buf) < entryHeaderSize + offset
    THEN [ok |-> FALSE, ent |-> newEntry(<<>>, <<>>, 0, 0)]
    ELSE [ok |-> TRUE,
          ent |-> [kvk |-> FromLE32(buf, offset),
                   pivot |-> FromLE32(buf, offset + 4),
                   prefix |-> SubSeq(buf, offset + 9, offset + 12),
                   offset |-> offset]]

\* btree.Insert on the node's entries, which are kept as the sequence
\* btree.Iter walks: ascending by prefix and then by the key read from buf;
\* an entry that compares equal is overwritten.
entriesCompare(k, ent, enth, buf) ==
    LET c == BytesCompare(ent.prefix, enth.prefix)
    IN  IF c # 0 THEN c ELSE BytesCompare(k, readKey(enth, buf))

entriesInsert(ents, ent, buf) ==
    LET k == readKey(ent, buf)
        below == {i \in DOMAIN ents : entriesCompare(k, ent, ents[i], buf) = 1}
        same == {i \in DOMAIN ents : entriesCompare(k, ent, ents[i], buf) = 0}
        at == Cardinality(below)
    IN  IF same # {}
        THEN [i \in DOMAIN ents |-> IF i \in same THEN ent ELSE ents[i]]
        ELSE SubSeq(ents, 1, at) \o <<ent>> \o SubSeq(ents, at + 1, Len(ents))

\* node.New
NNew(next, height) ==
    [buf |-> [i \in 1..nodeHeaderSize |-> 0], next |-> next, height |-> height,
     pivot |-> 0, entries |-> <<>>, dirty |-> FALSE, count |-> 0, cbuf |-> <<>>]

\* node.Load
NLoad(buf) ==
    IF Len(buf) < nodeHeaderSize THEN [ok |-> FALSE, t |-> NNew(0, 0)]
    ELSE [ok |-> TRUE,
          t |-> [buf |-> <<>>, next |-> FromBE32(buf, 0), height |-> FromBE32(buf, 4),
                 pivot |-> FromBE32(buf, 8), entries |-> <<>>, dirty |-> FALSE,
                 count |-> FromBE32(buf, 12), cbuf |-> buf]]

\* T.Length and T.Count
NLength(t) == Len(t.buf) + Len(t.cbuf) + 4 * Len(t.entries)

NCount(t) == Len(t.entries) + t.count

\* T.SetNext, T.SetPivot and T.Sully
NSetNext(t, next) == [t EXCEPT !.next = next]

NSetPivot(t, pivot) == [t EXCEPT !.pivot = pivot]

NSully(t) == [t EXCEPT !.dirty = TRUE]

\* T.iter: the entries of cbuf merged with those of t.entries, each with
\* the buffer it reads from (c for cbuf). es are the entries of the btree
\* still to come, i the index into the table, loaded whether the entry at i
\* was read already (ckey is not nil).
IterEnd(err, hang, panic) == [out |-> <<>>, err |-> err, hang |-> hang, panic |-> panic]

\* the table of cbuf has four bytes for its i-th place
InTable(t, i) == Len(t.cbuf) >= nodeHeaderSize + 4 * i + 4

RECURSIVE iterMerge(_, _, _, _)
RECURSIVE iterLoop(_, _, _, _)
\* the for loop of the callback given to t.entries.Iter, on the first of
\* es: it does not look at t.count, so that after the last entry of cbuf
\* was sent off it reads the next four bytes as one more place of the
\* table. An entry of the btree that sorts before the one of cbuf is
\* handed to the callback again and again: hang.
iterLoop(t, es, i, loaded) ==
    LET c == readEntry(FromBE32(t.cbuf, nodeHeaderSize + 4 * i), t.cbuf)
        cmp == BytesCompare(readKey(c.ent, t.cbuf), readKey(Head(es), t.buf))
    IN  IF ~loaded /\ ~InTable(t, i) THEN IterEnd(FALSE, FALSE, TRUE)
        ELSE IF ~c.ok THEN IterEnd(TRUE, FALSE, FALSE)
        ELSE IF cmp = -1
        THEN [iterLoop(t, es, i + 1, FALSE) EXCEPT
                 !.out = <<[ent |-> c.ent, c |-> TRUE]>> \o @]
        ELSE IF cmp = 0
        THEN [iterMerge(t, Tail(es), i, TRUE) EXCEPT
                 !.out = <<[ent |-> Head(es), c |-> FALSE]>> \o @]
        ELSE [IterEnd(FALSE, TRUE, FALSE) EXCEPT
                 !.out = <<[ent |-> Head(es), c |-> FALSE]>>]

\* the iteration from one entry of the btree to the next, and the rest of
\* cbuf once the btree is through
iterMerge(t, es, i, loaded) ==
    LET c == readEntry(FromBE32(t.cbuf, nodeHeaderSize + 4 * i), t.cbuf)
    IN  IF es = <<>>
        THEN IF i >= t.count THEN IterEnd(FALSE, FALSE, FALSE)
             ELSE IF ~loaded /\ ~InTable(t, i) THEN IterEnd(FALSE, FALSE, TRUE)
             ELSE IF ~loaded /\ ~c.ok THEN IterEnd(TRUE, FALSE, FALSE)
             ELSE [iterMerge(t, es, i + 1, FALSE) EXCEPT
                      !.out = <<[ent |-> c.ent, c |-> TRUE]>> \o @]
        ELSE IF i >= t.count
        THEN [iterMerge(t, Tail(es), i, loaded) EXCEPT
                 !.out = <<[ent |-> Head(es), c |-> FALSE]>> \o @]
        ELSE iterLoop(t, es, i, loaded)

NIter(t) == iterMerge(t, t.entries, 0, FALSE)

\* the buffer an entry of the iteration reads from
BufOf(t, x) == IF x.c THEN t.cbuf ELSE t.buf

\* what the callbacks of the tests read from an iteration: key, value,
\* kind and pivot of every entry
Tuples(t) ==
    LET it == NIter(t).out
    IN  [i \in DOMAIN it |->
            [key |-> readKey(it[i].ent, BufOf(t, it[i])),
             value |-> readValue(it[i].ent, BufOf(t, it[i])),
             kind |-> entKind(it[i].ent),
             pivot |-> it[i].ent.pivot]]

\* the body of T.Write: after the header and the table, every entry's
\* header, key and value; the table holds where each header starts
RECURSIVE writeEntries(_, _, _, _)
writeEntries(t, it, table, body) ==
    IF it = <<>> THEN [table |-> table, body |-> body]
    ELSE LET x == Head(it)
             start == nodeHeaderSize + 4 * NCount(t) + Len(body)
         IN  writeEntries(t, Tail(it), table \o BE32(start),
                          body \o entHeader(x.ent)
                               \o readKey(x.ent, BufOf(t, x))
                               \o readValue(x.ent, BufOf(t, x)))

\* T.Write(nil): the bytes, and the node with its dirty flag cleared
NWrite(t) ==
    LET it == NIter(t)
        w == writeEntries(t, it.out, <<>>, <<>>)
    IN  IF it.err \/ it.hang \/ it.panic THEN [ok |-> FALSE, t |-> t, buf |-> <<>>]
        ELSE [ok |-> TRUE,
              t |-> [t EXCEPT !.dirty = FALSE],
              buf |-> BE32(t.next) \o BE32(t.height) \o BE32(t.pivot)
                          \o BE32(NCount(t)) \o w.table \o w.body]

\* T.Fits, from the lengths of the key and the value
NFits(t, klen, vlen, size) ==
    /\ klen <= keyMask
    /\ vlen <= valueMask
    /\ Below(entryHeaderSize + klen + vlen + 4, size)
    /\ Below(NCount(t), MaxUint32)

\* the end of T.Insert and T.Delete: header, key and value go to the end of
\* buf, the entry into the btree
nodeAppend(t, k, v, kind) ==
    LET ent == newEntry(k, v, kind, Len(t.buf))
        buf == t.buf \o entHeader(ent) \o k \o v
    IN  [t EXCEPT !.buf = buf,
                  !.entries = entriesInsert(t.entries, ent, buf),
                  !.dirty = TRUE]

\* T.Insert that does not ask Fits
NInsertUnchecked(t, k, v) ==
    [t |-> nodeAppend(t, Bytes(Run(k.len % (keyMask + 1), k.byte)),
                      Bytes(Run(v.len % (valueMask + 1), v.byte)), kindInsert),
     wrote |-> TRUE]

\* T.Insert
NInsert(t, k, v) ==
    IF ~NFits(t, k.len, v.len, MaxUint32) THEN [t |-> t, wrote |-> FALSE]
    ELSE [t |-> nodeAppend(t, Bytes(k), Bytes(v), kindInsert), wrote |-> TRUE]

\* T.Delete
NDelete(t, k) ==
    IF ~NFits(t, k.len, 0, MaxUint32) THEN [t |-> t, wrote |-> FALSE]
    ELSE [t |-> nodeAppend(t, Bytes(k), <<>>, kindTombstone), wrote |-> TRUE]

\* what the callback of a Flush returns for the i-th entry it is given:
\* pivot 1, but at the given place the pivot zero or an error
CbPivot(cb, i) == IF cb.mode = "zero" /\ cb.at = i THEN 0 ELSE 1

CbFails(cb, i) == cb.mode = "err" /\ cb.at = i

\* the iteration of T.Flush from the i-th entry on: a zero pivot or an
\* error ends it, any other pivot is stored and the entry copied to nbuf
RECURSIVE flushEntries(_, _, _, _, _, _)
flushEntries(t, it, cb, i, nbuf, ents) ==
    IF it = <<>> THEN [nbuf |-> nbuf, ents |-> ents, uerr |-> FALSE]
    ELSE IF CbFails(cb, i) THEN [nbuf |-> nbuf, ents |-> ents, uerr |-> TRUE]
    ELSE IF CbPivot(cb, i) = 0 THEN [nbuf |-> nbuf, ents |-> ents, uerr |-> FALSE]
    ELSE LET x == Head(it)
             ent == [x.ent EXCEPT !.pivot = CbPivot(cb, i), !.offset = Len(nbuf)]
         IN  flushEntries(t, Tail(it), cb, i + 1,
                          nbuf \o entHeader(ent) \o readKey(x.ent, BufOf(t, x))
                               \o readValue(x.ent, BufOf(t, x)),
                          Append(ents, ent))

\* T.Flush: nil is returned also when the callback failed, the node then
\* being left as it was
NFlush(t, cb) ==
    LET it == NIter(t)
        f == flushEntries(t, it.out, cb, 1, [i \in 1..nodeHeaderSize |-> 0], <<>>)
    IN  IF it.err \/ it.hang \/ it.panic THEN [t |-> t, err |-> TRUE, changed |-> FALSE]
        ELSE IF f.uerr THEN [t |-> t, err |-> FALSE, changed |-> FALSE]
        ELSE [t |-> [t EXCEPT !.buf = f.nbuf, !.entries = f.ents, !.dirty = TRUE,
                              !.count = 0, !.cbuf = <<>>],
              err |-> FALSE, changed |-> TRUE]

\* the calls on a node leave everything else alone
NodeCall ==
    /\ nd.ops < MaxNodeOps
    /\ UNCHANGED <<woslVars, leaseVars, memVars, btreeVars, bn, hg, en, cnode>>

\* what a call leaves in the history
NodeLast(op, fits, wrote) ==
    [op |-> op, fits |-> fits, wrote |-> wrote, before |-> nd.t]

\* n.Insert(key, value)
NInsertCall(k, v) ==
    /\ NodeCall
    /\ LET r == NInsert(nd.t, k, v)
       IN  nd' = [nd EXCEPT !.t = r.t,
                            !.ops = @ + 1,
                            !.mutated = @ \/ r.wrote,
                            !.last = NodeLast("insert",
                                              NFits(nd.t, k.len, v.len, MaxUint32),
                                              r.wrote)]

\* n.Delete(key)
NDeleteCall(k) ==
    /\ NodeCall
    /\ LET r == NDelete(nd.t, k)
       IN  nd' = [nd EXCEPT !.t = r.t,
                            !.ops = @ + 1,
                            !.plain = FALSE,
                            !.mutated = @ \/ r.wrote,
                            !.last = NodeLast("delete",
                                              NFits(nd.t, k.len, 0, MaxUint32),
                                              r.wrote)]

\* n.Flush(cb)
NFlushCall(cb) ==
    /\ NodeCall
    /\ LET r == NFlush(nd.t, cb)
       IN  nd' = [nd EXCEPT !.t = r.t,
                            !.ops = @ + 1,
                            !.plain = FALSE,
                            !.mutated = @ \/ r.changed,
                            !.last = NodeLast("flush", TRUE, r.changed)]

\* n.SetPivot(pivot) with another pivot than the node has
NSetPivotCall ==
    /\ NodeCall
    /\ nd' = [nd EXCEPT !.t = NSetPivot(@, nd.t.pivot + 1),
                        !.ops = @ + 1,
                        !.plain = FALSE,
                        !.mutated = TRUE,
                        !.last = NodeLast("setpivot", TRUE, TRUE)]

\* n.SetNext(next) with another next than the node has
NSetNextCall ==
    /\ NodeCall
    /\ nd' = [nd EXCEPT !.t = NSetNext(@, nd.t.next + 1),
                        !.ops = @ + 1,
                        !.plain = FALSE,
                        !.mutated = TRUE,
                        !.last = NodeLast("setnext", TRUE, TRUE)]

\* buf, err := n.Write(nil); n2, err := Load(buf)
NWriteLoadCall ==
    /\ NodeCall
    /\ LET w == NWrite(nd.t)
       IN  nd' = [nd EXCEPT !.t = w.t,
                            !.ops = @ + 1,
                            !.mutated = IF w.ok THEN FALSE ELSE @,
                            !.loaded = IF w.ok THEN NLoad(w.buf)
                                       ELSE [ok |-> FALSE, t |-> NNew(0, 0)],
                            !.last = NodeLast("write", TRUE, w.ok)]

\* n2, err := Load(buf); n2.Insert(key, value): the caller goes on with the
\* node it has loaded
NLoadedInsertCall(k, v) ==
    /\ NodeCall
    /\ nd.loaded.ok
    /\ LET r == NInsert(nd.loaded.t, k, v)
       IN  nd' = [nd EXCEPT !.t = r.t,
                            !.ops = @ + 1,
                            !.plain = FALSE,
                            !.mutated = r.wrote,
                            !.last = [op |-> "loadedinsert",
                                      fits |-> NFits(nd.loaded.t, k.len, v.len,
                                                     MaxUint32),
                                      wrote |-> r.wrote,
                                      before |-> nd.loaded.t]]

\* ------------------------------------------------ node.T with a capacity

\* The node of src/internal/node/node.go. Its buf is a slice: arr is the
\* array under it up to the slice's capacity, len the slice's length. An
\* entry's kindOff is kept as its two parts, kind and off.
Zeros(n) == [i \in 1..n |-> 0]

\* the four bytes of an int32, the highest first: a negative number in
\* two's complement
S32(x) == IF x >= 0 THEN BE32(x)
          ELSE [i \in 1..4 |-> 255 - BE32(-x - 1)[i]]

\* int32(binary.BigEndian.Uint32(buf[off:off+4]))
Int32BE(buf, off) ==
    (IF buf[off + 1] >= 128 THEN buf[off + 1] - 256 ELSE buf[off + 1]) * 16777216
        + buf[off + 2] * 65536 + buf[off + 3] * 256 + buf[off + 4]

\* int16(binary.BigEndian.Uint16(buf[off:off+2]))
Int16BE(buf, off) ==
    (IF buf[off + 1] >= 128 THEN buf[off + 1] - 256 ELSE buf[off + 1]) * 256
        + buf[off + 2]

capEntry(pivot, kind, off, klen, vlen) ==
    [pivot |-> pivot, kind |-> kind, off |-> off, key |-> klen, value |-> vlen]

\* entry.size and entry.header
capSize(e) == capEntryHeaderSize + e.key + e.value

capHeader(e) == BE32(e.pivot) \o <<e.kind>> \o S32(e.key) \o S32(e.value)

\* entry.readKey and entry.readValue on the slice of the node
capReadKey(e, t) ==
    SubSeq(t.arr, capEntryHeaderSize + e.off + 1, capEntryHeaderSize + e.off + e.key)

capReadValue(e, t) ==
    SubSeq(t.arr, capEntryHeaderSize + e.off + e.key + 1,
           capEntryHeaderSize + e.off + e.key + e.value)

\* node.New: make([]byte, nodeHeaderSize, capacity)
CapNew(capacity, next, height) ==
    [arr |-> Zeros(capacity), len |-> capNodeHeaderSize, capacity |-> capacity,
     next |-> next, height |-> height, entries |-> <<>>]

\* append(t.buf, data...) within the capacity of the slice
capAppend(t, data) ==
    [t EXCEPT !.arr = [i \in DOMAIN t.arr |->
                          IF i \in (t.len + 1)..(t.len + Len(data))
                          THEN data[i - t.len] ELSE t.arr[i]],
              !.len = @ + Len(data)]

\* T.insertEntry: the place the binary search finds is behind the entries
\* whose key is smaller; an entry of the same key is replaced
capInsertEntry(t, k, ent) ==
    LET below == {i \in DOMAIN t.entries :
                     BytesCompare(capReadKey(t.entries[i], t), k) = -1}
        i == Cardinality(below) + 1
    IN  IF i > Len(t.entries) THEN [t EXCEPT !.entries = Append(@, ent)]
        ELSE IF capReadKey(t.entries[i], t) = k THEN [t EXCEPT !.entries[i] = ent]
        ELSE [t EXCEPT !.entries = SubSeq(@, 1, i - 1) \o <<ent>>
                                      \o SubSeq(@, i, Len(@))]

\* T.Insert
CapInsert(t, k, v) ==
    LET ent == capEntry(0, kindInsert, t.len, Len(k), Len(v))
    IN  IF t.len + capSize(ent) > t.capacity THEN [t |-> t, wrote |-> FALSE]
        ELSE [t |-> capInsertEntry(capAppend(t, capHeader(ent) \o k \o v), k, ent),
              wrote |-> TRUE]

\* T.reset: t.buf = t.buf[:32] panics when the slice has no 32 bytes of
\* capacity
CapReset(t) ==
    IF Len(t.arr) < resetLength THEN [t |-> t, panic |-> TRUE]
    ELSE [t |-> [t EXCEPT !.len = resetLength, !.entries = <<>>], panic |-> FALSE]

\* the entries as T.Write appends them behind the header
RECURSIVE capWriteEntries(_, _)
capWriteEntries(t, ents) ==
    IF ents = <<>> THEN <<>>
    ELSE capHeader(Head(ents)) \o capReadKey(Head(ents), t)
             \o capReadValue(Head(ents), t) \o capWriteEntries(t, Tail(ents))

\* T.Write into a zeroed buffer of the node's capacity
CapWrite(t) ==
    LET body == S32(t.capacity) \o BE32(t.next) \o BE32(Len(t.entries))
                    \o <<(t.height \div 256) % 256, t.height % 256>>
                    \o capWriteEntries(t, t.entries)
    IN  body \o Zeros(t.capacity - Len(body))

\* the loop of Load from the i-th entry on: pos bytes of buf are behind b
RECURSIVE capLoadEntries(_, _, _, _, _)
capLoadEntries(buf, count, i, pos, ents) ==
    LET lenb == Len(buf) - pos
        ent == capEntry(FromBE32(buf, pos), buf[pos + 5], pos,
                        Int32BE(buf, pos + 5), Int32BE(buf, pos + 9))
        size == capSize(ent)
    IN  IF i >= count THEN [ok |-> TRUE, panic |-> FALSE, entries |-> ents]
        ELSE IF lenb < capEntryHeaderSize
        THEN [ok |-> FALSE, panic |-> FALSE, entries |-> <<>>]
        ELSE IF lenb < size THEN [ok |-> FALSE, panic |-> FALSE, entries |-> <<>>]
        ELSE IF size < 0 THEN [ok |-> FALSE, panic |-> TRUE, entries |-> <<>>]
        ELSE capLoadEntries(buf, count, i + 1, pos + size, Append(ents, ent))

\* node.Load: a node, an error (ok is false) or a panic of b = b[size:]
CapLoad(buf) ==
    LET capacity == Int32BE(buf, 0)
        count == Int32BE(buf, 8)
        r == capLoadEntries(buf, count, 0, capNodeHeaderSize, <<>>)
        none == [ok |-> FALSE, panic |-> FALSE, t |-> CapNew(capNodeHeaderSize, 0, 0)]
    IN  IF Len(buf) < capNodeHeaderSize THEN none
        ELSE IF Len(buf) # capacity THEN none
        ELSE IF count < 0 THEN none
        ELSE IF ~r.ok THEN [none EXCEPT !.panic = r.panic]
        ELSE [ok |-> TRUE, panic |-> FALSE,
              t |-> [arr |-> buf, len |-> Len(buf), capacity |-> capacity,
                     next |-> FromBE32(buf, 4), height |-> Int16BE(buf, 12),
                     entries |-> r.entries]]

\* The buffers given to Load. A buffer is made of the count its header
\* declares, of entries with the key length and the value length their
\* headers declare, each followed by as many bytes as it declares when that
\* is 0 or 1 and by none else, and of pad further bytes; its header has the
\* buffer's length as capacity, or one more when off is 1.
InputEntry(klen, vlen) ==
    BE32(0) \o <<kindInsert>> \o S32(klen) \o S32(vlen)
        \o [i \in 1..((IF klen = 1 THEN 1 ELSE 0) + (IF vlen = 1 THEN 1 ELSE 0)) |-> 7]

RECURSIVE InputEntries(_)
InputEntries(es) ==
    IF es = <<>> THEN <<>>
    ELSE InputEntry(Head(es)[1], Head(es)[2]) \o InputEntries(Tail(es))

InputBuffer(in) ==
    LET body == InputEntries(in.entries) \o Zeros(in.pad)
    IN  S32(capNodeHeaderSize + Len(body) + in.off) \o BE32(0) \o S32(in.count)
            \o <<0, 0>> \o body

\* the key length and the value length an entry of an input declares: none
\* and one byte, more than any buffer has, and negative ones
InputLengths ==
    {<<0, 0>>, <<1, 1>>, <<65536, 0>>, <<0, 65536>>, <<-1, 0>>, <<-16, 0>>,
     <<1, -1>>, <<-1, -1>>}

InputEntryLists ==
    {<<>>} \cup {<<e>> : e \in InputLengths}
           \cup {<<<<1, 1>>, f>> : f \in {<<1, 0>>, <<65536, 0>>, <<-16, 0>>}}

\* one input has a capacity in its header that is not its length
LoadInputs ==
    {in \in [entries : InputEntryLists, count : {-1, 0, 1, 2, 3}, pad : {0, 1},
             off : {0, 1}] :
        in.off = 1 => in.pad = 0 /\ in.count = 1 /\ in.entries = <<<<1, 1>>>>}

\* an input declares a negative count, or a negative length in one of the
\* entries it counts
DeclaresNegative(in) ==
    \/ in.count < 0
    \/ \E i \in DOMAIN in.entries :
          i <= in.count /\ (in.entries[i][1] < 0 \/ in.entries[i][2] < 0)

\* an input counts more entries than it has, or one of the entries it counts
\* declares more bytes than are left in the buffer
DeclaresOverrun(in) ==
    \/ in.count > Len(in.entries)
    \/ \E i \in DOMAIN in.entries :
          i <= in.count /\ (in.entries[i][1] > 1 \/ in.entries[i][2] > 1)

CapNodeOnly ==
    /\ cnode.ops < MaxCapOps
    /\ UNCHANGED <<woslVars, leaseVars, memVars, btreeVars, bn, nd, hg, en>>

\* the capacities of the nodes: below the length reset cuts to, room for
\* two small entries, and room for more
Capacities == {30, 46, 64}

\* of the last Load: whether it returned a node, whether it panicked, and
\* what its buffer declared
NoLoad == [ok |-> FALSE, panic |-> FALSE, negative |-> FALSE, overrun |-> FALSE]

CapNodeStart(capacity) ==
    [t |-> CapNew(capacity, 0, 1), f |-> CapNew(capacity, 0, 1), twin |-> FALSE,
     sinceReset |-> 0, same |-> TRUE, panic |-> FALSE, ops |-> 0, op |-> "new",
     loaded |-> NoLoad]

CapNodeInit == cnode = CapNodeStart(46)

\* n := New(capacity, 0, 1)
CapNewCall(capacity) ==
    /\ CapNodeOnly
    /\ cnode.ops = 0
    /\ cnode' = [CapNodeStart(capacity) EXCEPT !.ops = 1]

\* n.Insert(key, value); once the node was reset the same call is made on
\* the node New made, and same tells whether both answered alike so far
CapInsertCall(k, v) ==
    /\ CapNodeOnly
    /\ ~cnode.panic
    /\ LET r == CapInsert(cnode.t, k, v)
           rf == CapInsert(cnode.f, k, v)
       IN  cnode' = [cnode EXCEPT !.t = r.t,
                            !.f = IF cnode.twin THEN rf.t ELSE @,
                            !.same = @ /\ (cnode.twin => r.wrote = rf.wrote),
                            !.sinceReset = IF cnode.twin THEN @ + 1 ELSE @,
                            !.ops = @ + 1,
                            !.op = "insert"]

\* n.reset(), and a node from New with the arguments n was made with
CapResetCall ==
    /\ CapNodeOnly
    /\ ~cnode.panic
    /\ LET r == CapReset(cnode.t)
       IN  cnode' = [cnode EXCEPT !.t = r.t,
                            !.f = CapNew(cnode.t.capacity, cnode.t.next, cnode.t.height),
                            !.twin = TRUE,
                            !.sinceReset = 0,
                            !.same = TRUE,
                            !.panic = r.panic,
                            !.ops = @ + 1,
                            !.op = "reset"]

\* what a Load leaves: the caller goes on with the node when it got one
AfterLoad(r, negative, overrun) ==
    [cnode EXCEPT !.t = IF r.ok THEN r.t ELSE @,
                  !.f = IF r.ok THEN r.t ELSE @,
                  !.twin = IF r.ok THEN FALSE ELSE @,
                  !.loaded = [ok |-> r.ok, panic |-> r.panic,
                              negative |-> negative, overrun |-> overrun],
                  !.ops = @ + 1,
                  !.op = "load"]

\* n, err := Load(buf)
CapLoadCall(in) ==
    /\ CapNodeOnly
    /\ ~cnode.panic
    /\ cnode' = AfterLoad(CapLoad(InputBuffer(in)), DeclaresNegative(in),
                          DeclaresOverrun(in))

\* Load of a buffer too short for a header
CapLoadShortCall(n) ==
    /\ CapNodeOnly
    /\ ~cnode.panic
    /\ cnode' = AfterLoad(CapLoad(Zeros(n)), FALSE, FALSE)

\* ---------------------------------------------------------------- height

\* a uint32 as two halves of 16 bits, and a < b
U32(hi, lo) == [hi |-> hi, lo |-> lo]

Less32(a, b) ==
    \/ a.hi < b.hi
    \/ a.hi = b.hi /\ a.lo < b.lo

\* a uint64 is eight bytes, the lowest first: the multiplier of the
\* generator, 6364136223846793005 = 0x5851F42D4C957F2D
mul == <<45, 127, 149, 76, 45, 244, 81, 88>>

\* bit i of a uint64, 0 from bit 64 on
Bit(x, i) ==
    IF i > 63 THEN 0 ELSE (x[(i \div 8) + 1] \div (2 ^ (i % 8))) % 2

\* column k of the product x*mul: the byte products of weight 256^(k-1)
RECURSIVE MulColumn(_, _, _)
MulColumn(x, k, i) ==
    IF i > k THEN 0 ELSE x[i] * mul[k + 1 - i] + MulColumn(x, k, i + 1)

\* x*mul + carry, modulo 2^64, from byte k on
RECURSIVE MulAddFrom(_, _, _)
MulAddFrom(x, k, carry) ==
    IF k > 8 THEN <<>>
    ELSE LET t == MulColumn(x, k, 1) + carry
         IN  <<t % 256>> \o MulAddFrom(x, k + 1, t \div 256)

\* p.State = oldstate*mul + p.Inc
Uint32State(p) == [p EXCEPT !.State = MulAddFrom(p.State, 1, p.Inc)]

\* bit k of xorshift = uint32(((oldstate >> 18) ^ oldstate) >> 27)
XorShiftBit(old, k) == (Bit(old, k + 27 + 18) + Bit(old, k + 27)) % 2

\* bit j of bits.RotateLeft32(xorshift, int(oldstate >> 59))
RotateLeft32Bit(old, j) ==
    LET rot == old[8] \div 8
    IN  XorShiftBit(old, (j + 32 - rot) % 32)

\* the bits from..from+15 of the number Uint32 returns
RECURSIVE Uint32Half(_, _, _)
Uint32Half(old, from, j) ==
    IF j > 15 THEN 0
    ELSE RotateLeft32Bit(old, from + j) * (2 ^ j)
         + Uint32Half(old, from, j + 1)

\* the number Uint32 returns
Uint32(p) ==
    U32(Uint32Half(p.State, 16, 0), Uint32Half(p.State, 0, 0))

\* h++ on an int16
IncInt16(h) == IF h + 1 > 32767 THEN h + 1 - 65536 ELSE h + 1

\* height(hash, zero, later) up to its first draw: rng := pcg.T{State:
\* hash, Inc: 1}.  below counts the draws that were below their threshold.
HeightEnter(hash, zero, later) ==
    [hash |-> hash, zero0 |-> zero, later |-> later,
     rng |-> [State |-> hash, Inc |-> 1], zero |-> zero, h |-> 0,
     pc |-> "next", draws |-> 0, below |-> 0]

\* one round of the loop: a draw that is not below the threshold returns,
\* any other adds one to h and makes later the threshold.
HeightNext(c) ==
    LET draw == Uint32(c.rng)
        rng == Uint32State(c.rng)
    IN  IF ~Less32(draw, c.zero)
        THEN [c EXCEPT !.rng = rng, !.draws = @ + 1, !.pc = "return"]
        ELSE [c EXCEPT !.rng = rng, !.draws = @ + 1, !.below = @ + 1,
                       !.h = IncInt16(@), !.zero = c.later]

\* the loop of a call goes on
HeightStep ==
    /\ hg.pc = "next"
    /\ hg.draws < MaxDraws
    /\ hg' = HeightNext(hg)
    /\ UNCHANGED <<woslVars, leaseVars, memVars, btreeVars, bn, nd, en, cnode>>

\* ------------------------------------------------------------ package entry

\* the places of the three fields in kvt
KeyShift == 0
KeyBits == 15
KeyMask == 2 ^ KeyBits - 1

ValueShift == KeyShift + KeyBits
ValueBits == 15
ValueMask == 2 ^ ValueBits - 1

TombstoneShift == ValueShift + ValueBits
TombstoneBits == 1
TombstoneMask == 2 ^ TombstoneBits - 1

\* the zero entry.T
ZeroEntry == [Prefix |-> <<0, 0, 0, 0>>, kvt |-> 0, pivot |-> U32(0, 0),
              offset |-> U32(0, 0)]

\* New: the first four bytes of the key, and the two lengths and the flag
\* masked and shifted into kvt (the sum is below 2^31, the fields do not
\* overlap).  A key and a value are runs of one byte.
EntryNewValueAtKey(k, v, tombstone, offset) ==
    LET t == IF tombstone THEN 1 ELSE 0
    IN  [Prefix |-> [i \in 1..4 |-> IF i <= k.len THEN k.byte ELSE 0],
         kvt |-> (k.len % (KeyMask + 1)) * (2 ^ KeyShift)
                 + (v.len % (ValueMask + 1)) * (2 ^ KeyShift)
                 + (t % (TombstoneMask + 1)) * (2 ^ TombstoneShift),
         pivot |-> U32(0, 0),
         offset |-> offset]

EntryNew(k, v, tombstone, offset) ==
    LET t == IF tombstone THEN 1 ELSE 0
    IN  [Prefix |-> [i \in 1..4 |-> IF i <= k.len THEN k.byte ELSE 0],
         kvt |-> (k.len % (KeyMask + 1)) * (2 ^ KeyShift)
                 + (v.len % (ValueMask + 1)) * (2 ^ ValueShift)
                 + (t % (TombstoneMask + 1)) * (2 ^ TombstoneShift),
         pivot |-> U32(0, 0),
         offset |-> offset]

\* the accessors
EntryKey(e) == (e.kvt \div (2 ^ KeyShift)) % (KeyMask + 1)

EntryValue(e) == (e.kvt \div (2 ^ ValueShift)) % (ValueMask + 1)

EntryTombstone(e) ==
    ((e.kvt \div (2 ^ TombstoneShift)) % 256) % (TombstoneMask + 1) > 0

EntryOffset(e) == e.offset

EntrySetOffset(e, offset) == [e EXCEPT !.offset = offset]

EntryPivot(e) == e.pivot

EntrySetPivot(e, pivot) == [e EXCEPT !.pivot = pivot]

\* the calls on an entry leave everything else alone
EntryOnly == UNCHANGED <<woslVars, leaseVars, memVars, btreeVars, bn, nd, hg, cnode>>

\* ent := entry.New(key, value, tombstone, offset)
EntryNewCall(k, v, tombstone, offset) ==
    /\ en' = [e |-> EntryNew(k, v, tombstone, offset), op |-> "New",
              key |-> k, value |-> v, tombstone |-> tombstone,
              arg |-> offset, before |-> en.e]
    /\ EntryOnly

\* ent.SetPivot(pivot)
EntrySetPivotCall(pivot) ==
    /\ en' = [en EXCEPT !.e = EntrySetPivot(en.e, pivot), !.op = "SetPivot",
                        !.arg = pivot, !.before = en.e]
    /\ EntryOnly

\* ent.SetOffset(offset)
EntrySetOffsetCall(offset) ==
    /\ en' = [en EXCEPT !.e = EntrySetOffset(en.e, offset),
                        !.op = "SetOffset", !.arg = offset, !.before = en.e]
    /\ EntryOnly

\* ------------------------------------------------------------- behaviours

\* NewEps over an empty disk: a root of height 1 with no leaf yet.
WoslInit(configs, tables) ==
    /\ \E c \in configs : blockSize = c.b /\ cap = c.cap
    /\ root = [NewNode(noBlock, 1) EXCEPT !.pivot = invalidBlock]
    /\ nodes = <<>>
    /\ leases = <<>>
    /\ disk = {}
    /\ maxBlock = 1
    /\ pc = "idle"
    /\ key = 1
    /\ big = FALSE
    /\ stack = <<>>
    /\ ret = "none"
    /\ hgt \in {[k \in Keys |-> t[k]] : t \in tables}
    /\ ops = 0
    /\ faults = 0
    /\ okKeys = {}
    /\ sinceGrow = {}
    /\ rootFlushed = FALSE
    /\ allOk = TRUE
    /\ trace = <<>>
    /\ leaseLog = <<>>
    /\ raised = FALSE

\* a zero lease variable
LeaseInit ==
    /\ lt = ZeroT
    /\ acq = ZeroT
    /\ cbLog = <<>>
    /\ closeRet = <<>>
    /\ lops = 0

\* newMemCache
MemInit ==
    /\ mNodes = <<>>
    /\ mLeases = <<>>
    /\ mBlocks = <<>>
    /\ mMax = 0
    /\ heap = <<>>
    /\ held = <<>>
    /\ mState = "ok"
    /\ mErr = FALSE
    /\ mops = 0
    /\ mLast = "new"

\* an empty tree and an empty Bulk
BtreeInit ==
    /\ bt = ZeroBtree
    /\ bBulk = ZeroBulk
    /\ bKeys = {}
    /\ bLast = [op |-> "new", key |-> 0, added |-> FALSE, fresh |-> FALSE,
                before |-> 0]

\* a fresh btree node
BNodeInit ==
    bn = [op |-> "new", node |-> NewBNode, before |-> NewBNode, key |-> 0,
          ent |-> BEntry(0, 0, FALSE, 0), added |-> FALSE]

\* node.New(0, 0)
NodeInit ==
    nd = [t |-> NNew(0, 0), ops |-> 0, plain |-> TRUE, mutated |-> FALSE,
          loaded |-> [ok |-> FALSE, t |-> NNew(0, 0)],
          last |-> [op |-> "new", fits |-> TRUE, wrote |-> FALSE,
                    before |-> NNew(0, 0)]]

\* the thresholds and the hashes height is called with: no chance, one in
\* two and every draw but one; hashes with a low and a high byte
Half32 == U32(32768, 0)

HeightThresholds == {U32(0, 0), Half32, MaxUint32}

HeightHashes ==
    {<<n, 0, 0, 0, 0, 0, 0, m>> : n \in 0..MaxHash, m \in {0, 200}}

\* a hash and a threshold with more than 32767 draws below the threshold
\* before the first that is not: 0xFFFDB8DD
LongHash == <<14, 0, 0, 0, 0, 0, 0, 0>>

LongThreshold == U32(65533, 47325)

\* a call of height that has not started
HeightFixed == hg = HeightEnter(LongHash, U32(0, 0), U32(0, 0))

\* a zero entry
EntryInit ==
    en = [e |-> ZeroEntry, op |-> "zero", key |-> Run(0, 0),
          value |-> Run(0, 0), tombstone |-> FALSE, arg |-> U32(0, 0),
          before |-> ZeroEntry]

\* the internal packages as constructed
LibInit == BtreeInit /\ BNodeInit /\ NodeInit /\ HeightFixed /\ EntryInit /\ CapNodeInit

\* everything but the skip list as constructed
RestInit == LeaseInit /\ MemInit /\ LibInit

\* the skip list with its first height table over the normal disk
WoslFixed == WoslInit({NormalDisk}, {<<1, 2, 0, 2, 1>>})

Init == WoslInit(Configs, HeightTables) /\ RestInit

\* the skip list over a cache that keeps the Cache interface's contract
Next ==
    \/ \E k \in Keys : \E isBig \in {FALSE, k = 1} : InsertCall(k, isBig)
    \/ GrowRoot
    \/ RootInsert
    \/ CacheFlush
    \/ FlushStart
    \/ FlushEntry
    \/ FlushFinish
    \/ FlushFixParent
    \/ FlushCommit
    \/ FlushFixup
    \/ Rebalance
    \/ FlushReturn

Spec == Init /\ [][Next]_vars

\* Runs in which keys are as high as 3, so that a node of height 2 splits
\* and the flushes of its children have several parents.
DeepTables == {<<3, 1, 2, 0, 1>>, <<1, 3, 2, 3, 0>>, <<2, 1, 3, 3, 2>>}

InitDeep == WoslInit({NormalDisk}, DeepTables) /\ RestInit

SpecDeep == InitDeep /\ [][Next]_vars

\* The steps of a running Insert.  Insert runs on the goroutine of its
\* caller, which goes on to the next statement as long as the call has not
\* returned: a running Insert always takes its next step.
Running ==
    \/ GrowRoot
    \/ RootInsert
    \/ CacheFlush
    \/ FlushStart
    \/ FlushEntry
    \/ FlushFinish
    \/ FlushFixParent
    \/ FlushCommit
    \/ FlushFixup
    \/ Rebalance
    \/ FlushReturn

SpecLive == InitDeep /\ [][Next]_vars /\ WF_vars(Running)

InitLease == WoslFixed /\ RestInit

\* one lease variable and its callers
NextLease ==
    \/ \E n \in Blocks, block \in Blocks, cb \in Callbacks : TNewCall(n, block, cb)
    \/ \E n \in Blocks : TSetNodeCall(n)
    \/ TCloseCall

SpecLease == InitLease /\ [][NextLease]_vars

InitCache == WoslFixed /\ RestInit

\* the memCache and its callers
NextCache ==
    \/ \E block \in Blocks, dirty \in BOOLEAN : MemAddCall(block, dirty)
    \/ \E block \in Blocks : MemGetCall(block)
    \/ \E i \in DOMAIN held : MemMutateCall(i)
    \/ \E i \in DOMAIN held, fail \in BOOLEAN : MemCloseCall(i, fail)
    \/ MemFlushCall
    \/ \E block \in Blocks : MemDiskWriteCall(block)

SpecCache == InitCache /\ [][NextCache]_vars

InitBtree == WoslFixed /\ RestInit

\* one btree.T and its callers
NextBtree ==
    \/ \E k \in BKeys : \E tomb \in {FALSE, k = 1} : BtInsertCall(k, tomb)
    \/ BtResetCall

SpecBtree == InitBtree /\ [][NextBtree]_vars

\* a Bulk and a tree that are given the same ascending entries
NextBulk ==
    \E k \in BKeys, tomb \in BOOLEAN : BulkAppendCall(k, tomb)

SpecBulk == InitBtree /\ [][NextBulk]_vars

\* a Bulk that is loaded in ascending order, and a tree that is given the
\* same entries and then further ones in any order
NextTrees ==
    \/ \E k \in BKeys : \E tomb \in {FALSE, k = 1} : BtInsertCall(k, tomb)
    \/ \E k \in BKeys : BulkKeys(bBulk) = bKeys /\ BulkAppendCall(k, FALSE)
    \/ \E bulk \in BOOLEAN : BtWriteLoadCall(bulk)

SpecTrees == InitBtree /\ [][NextTrees]_vars

\* one btree node and the inserts of its caller
NextBNode ==
    \E k \in NKeys, vlen \in {1, 2}, tomb \in BOOLEAN, pivot \in {0, 1} :
        InsertEntryCall(k, vlen, tomb, pivot)

SpecBNode == InitBtree /\ [][NextBNode]_vars

\* the keys and values given to a node: short ones, a key longer than an
\* entry header, and ones too long for an entry
NodeInputKeys == {Run(1, 1), Run(entryHeaderSize + 1, 7), Run(keyMask + 1, 1)}

NodeValues == {Run(0, 0), Run(1, 9), Run(valueMask + 1, 9)}

FlushCallbacks == {[mode |-> "keep", at |-> 0], [mode |-> "zero", at |-> 1],
               [mode |-> "err", at |-> 1]}

\* one node.T and its callers
NextNode ==
    \/ \E k \in NodeInputKeys, v \in NodeValues : NInsertCall(k, v)
    \/ \E k \in NodeInputKeys : NDeleteCall(k)
    \/ \E cb \in FlushCallbacks : NFlushCall(cb)
    \/ NSetPivotCall
    \/ NSetNextCall
    \/ NWriteLoadCall

SpecNode == InitBtree /\ [][NextNode]_vars

\* the keys and values given to a node with a capacity
CapKeys == {<<1>>, <<2>>}

CapValues == {<<>>, <<9>>}

\* one node with a capacity and its callers
NextCapNode ==
    \/ \E c \in Capacities : CapNewCall(c)
    \/ \E k \in CapKeys, v \in CapValues : CapInsertCall(k, v)
    \/ CapResetCall
    \/ \E in \in LoadInputs : CapLoadCall(in)
    \/ \E n \in {0, capNodeHeaderSize - 1} : CapLoadShortCall(n)

SpecCapNode == InitBtree /\ [][NextCapNode]_vars

\* one node.T, written, loaded and used further
NextLoaded ==
    \/ NextNode
    \/ \E k \in NodeInputKeys, v \in NodeValues : NLoadedInsertCall(k, v)

SpecLoaded == InitBtree /\ [][NextLoaded]_vars

\* calls of height
InitHeight ==
    /\ WoslFixed /\ LeaseInit /\ MemInit
    /\ BtreeInit /\ BNodeInit /\ NodeInit /\ EntryInit /\ CapNodeInit
    /\ \/ \E hash \in HeightHashes, zero \in HeightThresholds,
              later \in {U32(0, 0), Half32} :
              hg = HeightEnter(hash, zero, later)
       \/ hg = HeightEnter(LongHash, LongThreshold, LongThreshold)

NextHeight == HeightStep

SpecHeight == InitHeight /\ [][NextHeight]_vars

\* the lengths, flags and numbers an entry is built from and set to
EntryKeyLens == {0, 1, KeyMask, KeyMask + 1}

EntryValueLens == {0, 2, ValueMask}

EntryNumbers == {U32(0, 0), U32(0, 4), MaxUint32}

\* one entry.T and its callers
NextEntry ==
    \/ \E klen \in EntryKeyLens, vlen \in EntryValueLens,
          tombstone \in BOOLEAN, offset \in EntryNumbers :
          EntryNewCall(Run(klen, 7), Run(vlen, 9), tombstone, offset)
    \/ \E pivot \in EntryNumbers : EntrySetPivotCall(pivot)
    \/ \E offset \in EntryNumbers : EntrySetOffsetCall(offset)

SpecEntry == InitBtree /\ [][NextEntry]_vars

\* ----------------------------------------------------------------- claims

\* every node of the skip list: the root and the nodes of the cache
AllBlocks == {rootBlock} \cup DOMAIN nodes

\* the blocks a node's pivots name: the header pivot and the entries' pivots
PivotsOf(n) ==
    (IF n.pivot \in {noBlock, invalidBlock} THEN {} ELSE {n.pivot})
        \cup {n.ents[i].pivot : i \in {j \in DOMAIN n.ents : n.ents[j].pivot # noBlock}}

Events(e) == {i \in DOMAIN trace : trace[i] = e}

\* C1: across any sequence of Insert calls the root's height never
\* decreases, and whenever Insert(k, v) returns nil the root's height is
\* strictly greater than height(k).
C1_RootGrowth ==
    [][/\ root'.height >= root.height
       /\ (pc' = "idle" /\ ret' = "nil") => root'.height > hgt'[key']]_vars

\* an Insert of a key of height 2 returned nil under a root grown to 3
C1_Witness == pc = "idle" /\ ret = "nil" /\ hgt[key] = 2 /\ root.height = 3

C3_RootHoldsAllKeys ==
    (pc = "idle" /\ allOk /\ ~rootFlushed) => NodeKeys(root) = okKeys

\* C3, amended: after successful Inserts with no flush of the root, the
\* root's entries are exactly the keys inserted since the root last grew,
\* and every key inserted so far is in the root or in a former root.
C3_RootHoldsKeysSinceGrowth ==
    (pc = "idle" /\ allOk /\ ~rootFlushed) =>
        /\ NodeKeys(root) = sinceGrow
        /\ UNION {NodeKeys(At(World, b)) : b \in AllBlocks} = okKeys

\* the root grew after a key was inserted, and another key was inserted
C3_Witness ==
    /\ pc = "idle" /\ allOk /\ ~rootFlushed
    /\ sinceGrow # {} /\ sinceGrow # okKeys

\* C4: every lease of cache.Get during an Insert has its release callback
\* run exactly once, and none is outstanding when Insert returns, with nil
\* or with an error.
C4_LeasesReleasedOnce ==
    /\ \A i \in DOMAIN leaseLog : leaseLog[i] <= 1
    /\ pc = "idle" =>
          /\ \A i \in DOMAIN leaseLog : leaseLog[i] = 1
          /\ \A b \in DOMAIN leases : leases[b] = 0

\* an Insert that took three leases or more returned an error
C4_Witness == pc = "idle" /\ ret = "err" /\ Len(leaseLog) >= 3

\* C6: every error raised while an Insert runs is returned to the caller.
C6_ErrorsReturned == (pc = "idle" /\ raised) => ret = "err"

\* C7: after an Insert that returned nil, every pivot of a node of height
\* 1 or more (an entry's, or the header's unless 0 or the sentinel) names a
\* block registered in the cache.
C7_PivotsKnown ==
    (pc = "idle" /\ ret = "nil") =>
        \A b \in AllBlocks :
            At(World, b).height >= 1 => PivotsOf(At(World, b)) \subseteq DOMAIN nodes

\* an Insert returned nil while a cached node of height 1 or more holds an
\* entry with a pivot
C7_Witness ==
    /\ pc = "idle" /\ ret = "nil"
    /\ \E b \in DOMAIN nodes :
          /\ nodes[b].height >= 1
          /\ \E i \in DOMAIN nodes[b].ents : nodes[b].ents[i].pivot # noBlock

\* C8: flush only ever runs on nodes of height 1 or more, the recursive
\* flushes of fixup children included: the assertion never fails.
C8_NoLeafFlush ==
    /\ pc # "assert"
    /\ \A i \in DOMAIN stack : At(World, stack[i].block).height >= 1

\* a recursive flush of a fixup child is running
C8_Witness == pc = "flush" /\ Len(stack) >= 2 /\ Top.ph = "iter"

\* C9: every pivot edge goes from a node of height h to a node of height
\* h - 1, and a sibling split off a node has that node's height; so no
\* chain of pivots returns to its start.
C9_PivotsGoDown ==
    /\ \A b \in AllBlocks : \A c \in PivotsOf(At(World, b)) \cap DOMAIN nodes :
          nodes[c].height + 1 = At(World, b).height
    /\ \A i \in DOMAIN stack : \A j \in DOMAIN stack[i].splits :
          stack[i].splits[j].n.height = At(World, stack[i].block).height

\* a flush has split a node and the root is three levels up
C9_Witness ==
    /\ root.height = 3
    /\ \E i \in DOMAIN stack : stack[i].ph = "fixups" /\ Len(stack[i].splits) >= 1
    /\ \E b \in DOMAIN nodes : \E c \in PivotsOf(nodes[b]) : c \in DOMAIN nodes

\* C5: for one lease.New the callback runs exactly once however often
\* Close is called: the first Close calls it and leaves the lease zero, also
\* when the callback returned an error (which that Close returns); every
\* later Close calls nothing and returns nil.
C5_CallbackOnce ==
    /\ Len(cbLog) <= 1
    /\ Len(closeRet) >= 1 =>
          /\ TZero(lt)
          /\ Len(cbLog) = (IF TZero(acq) THEN 0 ELSE 1)
          /\ closeRet[1] = (IF acq.cb = "fails" THEN "err" ELSE "nil")
          /\ \A i \in 2..Len(closeRet) : closeRet[i] = "nil"

\* a lease whose callback fails was closed twice
C5_Witness == Len(closeRet) >= 2 /\ acq.cb = "fails" /\ Len(cbLog) = 1

\* C10: two leases held at once on the same block are over the same node
\* instance, also when Get had to load the block from the disk.
C10_SameInstance ==
    \A i, j \in DOMAIN held :
        held[i].block = held[j].block => held[i].n = held[j].n

\* C11: Cache.Flush writes back every dirty node the cache holds, leased or
\* not, and completes without error or panic whenever the disk writes
\* succeed: after such a Flush the cache has not panicked, no error was
\* returned and no node of the cache is dirty.
C11_FlushWritesAll ==
    mLast = "flush" =>
        /\ mState = "ok"
        /\ ~mErr
        /\ \A b \in DOMAIN mNodes : ~heap[mNodes[b]].dirty

\* whether the keys are in strictly ascending (prefix, key) order
Ascending(ks) ==
    \A i, j \in DOMAIN ks :
        i < j => \/ Prefix(ks[i]) < Prefix(ks[j])
                 \/ Prefix(ks[i]) = Prefix(ks[j]) /\ ks[i] < ks[j]

\* C12: after any sequence of Insert calls on a btree, in any key order and
\* with duplicates, Iter and Iterator both yield the keys in strictly
\* ascending (prefix, key) order, every distinct inserted key exactly once;
\* on an empty tree Iterator.Next returns false at once.
C12_IterAscending ==
    LET ks == EntryKeys(Iter(bt))
    IN  /\ Ascending(ks)
        /\ {ks[i] : i \in DOMAIN ks} = bKeys
        /\ IteratorAll(bt) = Iter(bt)
        /\ ~bt.rooted => ~IteratorNext(bt, Iterator(bt)).ok

\* a tree of three levels holding every key, the last Insert a duplicate
C12_Witness ==
    /\ bt.rooted
    /\ ~BNode(bt, bt.rid).leaf
    /\ ~BNode(bt, BNode(bt, bt.rid).next).leaf
    /\ bKeys = BKeys
    /\ bLast.op = "insert"
    /\ ~bLast.fresh

\* C13: the btree's Count equals the number of distinct keys inserted; an
\* Insert returns true exactly when the key was not yet present, and the
\* re-insert of a present key leaves Count unchanged, splits or not.
C13_CountDistinct ==
    /\ bt.count = Cardinality(bKeys)
    /\ bLast.op = "insert" => (bLast.added <=> bLast.fresh)
    /\ bLast.op = "insert" /\ ~bLast.fresh => bt.count = bLast.before

\* a present key inserted again into a tree that has split
C13_Witness ==
    /\ bLast.op = "insert"
    /\ ~bLast.fresh
    /\ ~bLast.added
    /\ bt.rooted
    /\ ~BNode(bt, bt.rid).leaf
    /\ bt.count = bLast.before

\* the places of a key in a payload
PlacesOf(payload, k) == {i \in DOMAIN payload : payload[i].key = k}

\* C14: inserting an entry whose key is already present in a btree node
\* replaces the stored entry's lengths, tombstone flag and offset, leaves
\* its pivot unchanged and changes no other entry of the node.
C14_OverwriteFrame ==
    bn.op = "insert" /\ PlacesOf(bn.before.payload, bn.key) # {} =>
        LET old == bn.before.payload
            new == bn.node.payload
        IN  /\ DOMAIN new = DOMAIN old
            /\ \A i \in DOMAIN old :
                   IF old[i].key = bn.key
                   THEN /\ new[i].key = bn.key
                        /\ new[i].vlen = bn.ent.vlen
                        /\ new[i].tomb = bn.ent.tomb
                        /\ new[i].offset = bn.ent.offset
                        /\ new[i].pivot = old[i].pivot
                   ELSE new[i] = old[i]

\* an entry between two others overwritten by one that differs in every
\* field, its pivot included
C14_Witness ==
    /\ bn.op = "insert"
    /\ Len(bn.before.payload) = payloadEntries - 1
    /\ \E i \in PlacesOf(bn.before.payload, bn.key) :
          /\ bn.before.payload[i].vlen # bn.ent.vlen
          /\ bn.before.payload[i].tomb # bn.ent.tomb
          /\ bn.before.payload[i].pivot # bn.ent.pivot
          /\ bn.node.payload[i].pivot # bn.ent.pivot

\* C15: for every strictly ascending sequence of entries, the empty and
\* the single-entry one included, the tree of Bulk.Append calls and Done
\* iterates the same entries in the same order as the tree the same entries
\* were inserted into one by one.
C15_BulkLikeInsert ==
    /\ Iter(BulkTree(bBulk)) = Iter(bt)
    /\ IteratorAll(BulkTree(bBulk)) = IteratorAll(bt)

\* every key appended, some as tombstones, the Bulk's tree three levels high
C15_Witness ==
    /\ bLast.op = "append"
    /\ bKeys = BKeys
    /\ ~BNode(BulkTree(bBulk), BulkTree(bBulk).rid).leaf
    /\ ~BNode(BulkTree(bBulk), BNode(BulkTree(bBulk), BulkTree(bBulk).rid).next).leaf
    /\ \E i \in DOMAIN Iter(bt) : Iter(bt)[i].tomb
    /\ Len(Iter(bt)) = MaxBKey

\* C16: for any node built by a sequence of Inserts, Load of the bytes that
\* Write produced succeeds, and iterating the loaded node yields the same
\* (key, value, tombstone, pivot) tuples in the same order as iterating the
\* original node.
C16_WriteLoadRoundTrip ==
    nd.plain /\ nd.last.op = "write" =>
        /\ nd.last.wrote
        /\ nd.loaded.ok
        /\ Tuples(nd.loaded.t) = Tuples(nd.t)

\* C17: whenever Fits(k, v, MaxUint32) is true for a node, Insert(k, v)
\* returns true; whenever it is false, Insert returns false and leaves the
\* node's entries, buffer and dirty flag unchanged.
C17_FitsDecidesInsert ==
    nd.last.op = "insert" =>
        /\ nd.last.wrote <=> nd.last.fits
        /\ ~nd.last.fits =>
               /\ nd.t.entries = nd.last.before.entries
               /\ nd.t.buf = nd.last.before.buf
               /\ nd.t.dirty = nd.last.before.dirty

\* an entry that does not fit refused by a dirty node that holds entries
C17_Witness ==
    /\ nd.last.op = "insert"
    /\ ~nd.last.fits
    /\ ~nd.last.wrote
    /\ nd.last.before.dirty
    /\ nd.last.before.entries # <<>>

\* C18: Dirty() is true exactly when the node has been mutated since its
\* last Write: Insert, Delete, Flush and setting the header pivot or the
\* next pointer make it true, a successful Write makes it false.
C18_DirtyIffMutated == nd.t.dirty <=> nd.mutated

\* C19: when height returns, what it returns is the number of draws that
\* were below their threshold before the first that was not, and it is 0
\* when the height-0 threshold is 0.
C19_HeightCountsDraws ==
    hg.pc = "return" =>
        /\ hg.h = hg.below
        /\ hg.zero0 = U32(0, 0) => hg.h = 0

\* C20: an entry built from lengths of at most 32767 reports what it was
\* built from and pivot 0; SetPivot changes the pivot only and SetOffset
\* the offset only.
C20_EntryPacking ==
    /\ (en.op = "New" /\ en.key.len <= 32767 /\ en.value.len <= 32767) =>
           /\ EntryKey(en.e) = en.key.len
           /\ EntryValue(en.e) = en.value.len
           /\ EntryTombstone(en.e) = en.tombstone
           /\ EntryOffset(en.e) = en.arg
           /\ EntryPivot(en.e) = U32(0, 0)
    /\ en.op = "SetPivot" =>
           /\ EntryPivot(en.e) = en.arg
           /\ en.e = [en.before EXCEPT !.pivot = en.arg]
           /\ EntryKey(en.e) = EntryKey(en.before)
           /\ EntryValue(en.e) = EntryValue(en.before)
           /\ EntryTombstone(en.e) = EntryTombstone(en.before)
           /\ EntryOffset(en.e) = EntryOffset(en.before)
    /\ en.op = "SetOffset" =>
           /\ EntryOffset(en.e) = en.arg
           /\ en.e = [en.before EXCEPT !.offset = en.arg]
           /\ EntryKey(en.e) = EntryKey(en.before)
           /\ EntryValue(en.e) = EntryValue(en.before)
           /\ EntryTombstone(en.e) = EntryTombstone(en.before)
           /\ EntryPivot(en.e) = EntryPivot(en.before)

\* an entry of the longest key and value, a tombstone, whose pivot was set
\* to another one after its offset was
C20_Witness ==
    /\ en.op = "SetPivot"
    /\ EntryPivot(en.e) # EntryPivot(en.before)
    /\ EntryOffset(en.e) = MaxUint32
    /\ EntryKey(en.e) = 32767
    /\ EntryValue(en.e) = 32767
    /\ EntryTombstone(en.e)
    /\ en.key.len = 32767

\* the running Insert has just put its entry into the root
RootInserted == pc = "grow" /\ trace' = Append(trace, "insert")

\* C21: Insert calls cache.Flush and then flush(root) exactly when the
\* root's Length after the insertion has reached the block size; the root
\* flush starts only from a cache.Flush that completed without an error,
\* and a cache.Flush that failed ends the Insert with the error.
C21_FlushWhenFull ==
    [][/\ RootInserted =>
              /\ Length(root') >= blockSize <=> pc' = "cacheflush"
              /\ Length(root') < blockSize <=> (pc' = "idle" /\ ret' = "nil")
       /\ (pc # "cacheflush" /\ pc' = "cacheflush") => RootInserted
       /\ (stack = <<>> /\ stack' # <<>>) =>
              /\ pc = "cacheflush"
              /\ faults' = faults
              /\ DirtyBlocks([nodes |-> nodes']) = {}
              /\ stack' = <<Frame(rootBlock, <<>>)>>
              /\ root' = root
       /\ (pc = "cacheflush" /\ faults' # faults) =>
              /\ pc' = "idle" /\ ret' = "err"
              /\ stack' = <<>>
              /\ root' = root]_vars

\* the flush of a root that has reached the block size starts, after a
\* cache.Flush that wrote dirty nodes back
C21_Witness ==
    /\ pc = "flush" /\ Len(stack) = 1 /\ Top.ph = "start"
    /\ Length(root) >= blockSize
    /\ Len(trace) >= 2 /\ trace[Len(trace) - 1] = "cacheflush"
    /\ nodes # <<>>

\* the root and the cache after the step
WorldNext == [root |-> root', nodes |-> nodes']

\* the frame of the running flush after the step
TopNext == stack'[Len(stack')]

\* the callback of n.Flush has handled the entry at Top.i without an error
EntryHandled ==
    /\ pc = "flush" /\ Top.ph = "iter"
    /\ pc' = "flush" /\ Len(stack') = Len(stack)
    /\ TopNext.ph = "iter" /\ TopNext.i = Top.i + 1

\* the pivot of the closest entry at or before place i that has one, or
\* the header's pivot when there is none
ClosestPivot(ents, header, i) ==
    LET js == {j \in 1..i : ents[j].pivot # noBlock}
    IN  IF js = {} THEN header
        ELSE ents[CHOOSE j \in js : \A l \in js : l <= j].pivot

\* C22: the iteration of flush(n) takes the entries of n one by one in key
\* order, each of them once, and inserts each into the child whose block
\* is the pivot of the closest entry at or before it with a non-zero pivot
\* (as n had it when the iteration started), or into the child of n's
\* header pivot when there is no such entry.
C22_EntryGoesToPivotChild ==
    [][/\ EntryHandled =>
              LET f == Top
                  e == f.ents0[f.i]
                  c == ClosestPivot(f.ents0, At(World, f.block).pivot, f.i)
              IN  /\ \A j \in 1..(Len(f.ents0) - 1) :
                         f.ents0[j].key < f.ents0[j + 1].key
                  /\ At(World, f.block).ents[f.i].key = e.key
                  /\ TopNext.cblock = c
                  /\ c \in DOMAIN nodes
                  /\ e.key \in NodeKeys(nodes'[c])
                  /\ nodes'[c].len = nodes[c].len + 1
                  /\ \A b \in DOMAIN nodes \ {c} :
                         NodeKeys(nodes'[b]) = NodeKeys(nodes[b])
       /\ (pc = "flush" /\ Top.ph = "iter" /\ ~Top.err
             /\ Len(stack') = Len(stack) /\ TopNext.ph # "iter") =>
              Top.i = Len(Top.ents0) + 1]_vars

\* an entry without a pivot went to the child that an entry before it
\* names, which is not the child of the header
C22_Witness ==
    /\ pc = "flush" /\ Top.ph = "iter" /\ Top.i >= 3
    /\ Top.ents0[Top.i - 1].pivot = noBlock
    /\ Top.cblock # At(World, Top.block).pivot
    /\ Top.cblock \in DOMAIN nodes
    /\ Top.ents0[Top.i - 1].key \in NodeKeys(nodes[Top.cblock])

\* the running flush is about to return nil
FlushReturnsNil == pc = "flush" /\ FlushOver(Top) /\ ~Top.err

\* C23: when flush(n) returns nil, every entry still in n has a non-zero
\* pivot and the height of n and sorts before the first key of n that was
\* higher than n (the leader of the first sibling); no entry lower than n
\* is left in n.
C23_KeptEntriesArePivots ==
    FlushReturnsNil =>
        LET n == At(World, Top.block)
        IN  \A i \in DOMAIN n.ents :
                /\ n.ents[i].pivot # noBlock
                /\ hgt[n.ents[i].key] = n.height
                /\ Top.splits # <<>> => n.ents[i].key < Top.splits[1].leader

\* a flush returns nil that kept a pivot entry and moved the entries from
\* a higher key on to a sibling
C23_Witness ==
    /\ FlushReturnsNil
    /\ At(World, Top.block).ents # <<>>
    /\ Top.splits # <<>>
    /\ \E b \in DOMAIN nodes : b # Top.block /\
           \E k \in NodeKeys(nodes[b]) : hgt[k] < At(World, Top.block).height

\* the keys of the entries that are higher than the height nh, in order
Leaders(ents, nh) ==
    LET high == SelectSeq(ents, LAMBDA e : hgt[e.key] > nh)
    IN  [i \in DOMAIN high |-> high[i].key]

\* the keys of the entries from the i-th leader up to the next one
KeysOfSibling(ents, ls, i) ==
    {ents[j].key : j \in {l \in DOMAIN ents :
        /\ ents[l].key >= ls[i]
        /\ i < Len(ls) => ents[l].key < ls[i + 1]}}

\* the iteration of the running flush ends without an error or a panic
IterationDone ==
    /\ pc = "flush" /\ Top.ph = "iter" /\ ~Top.err
    /\ pc' = "flush" /\ Len(stack') = Len(stack) /\ TopNext.ph # "iter"

\* C24: with L1 < ... < Lm the keys of n that are higher than n, a flush
\* of n that succeeds creates m siblings; sibling i holds the entries of n
\* from Li up to L(i+1), is registered in the cache under the i-th block
\* after maxBlock, which was free, and has n's height and next pointer;
\* maxBlock grows by m when the parents are fixed.
C24_SiblingsPerLeader ==
    [][/\ IterationDone =>
              LET n == At(World, Top.block)
                  ls == Leaders(Top.ents0, n.height)
                  sp == TopNext.splits
              IN  /\ Len(sp) = Len(ls)
                  /\ TopNext.ph = (IF Len(ls) = 0 THEN "fixups" ELSE "fixpar")
                  /\ DOMAIN nodes' = DOMAIN nodes \cup
                         {maxBlock + i : i \in 1..Len(ls)}
                  /\ TopNext.maxBlock = maxBlock + Len(ls)
                  /\ \A i \in DOMAIN ls :
                         /\ sp[i].leader = ls[i]
                         /\ sp[i].block = maxBlock + i
                         /\ sp[i].block \notin DOMAIN nodes
                         /\ nodes'[sp[i].block] = sp[i].n
                         /\ NodeKeys(sp[i].n) = KeysOfSibling(Top.ents0, ls, i)
                         /\ Len(sp[i].n.ents) = Cardinality(NodeKeys(sp[i].n))
                         /\ sp[i].n.height = n.height
                         /\ sp[i].n.next = n.next
       /\ (pc = "flush" /\ Top.ph = "fixpar" /\ Len(stack') = Len(stack)
             /\ TopNext.ph = "fixups") =>
              maxBlock' = maxBlock + Len(Top.splits)
       /\ (pc = "flush" /\ Top.ph # "start" /\ maxBlock' # maxBlock) =>
              Top.ph = "fixpar"]_vars

\* a flush has made two siblings and taken two blocks for them
C24_Witness ==
    /\ pc = "flush" /\ Top.ph = "fixups"
    /\ Len(Top.splits) = 2
    /\ maxBlock = Top.splits[2].block
    /\ \A i \in 1..2 : Top.splits[i].block \in DOMAIN nodes

\* the block a parent's entry for key k is to name after the node at block
\* b was split: b below the first leader, else the sibling of the last
\* leader at or below k
BlockAfterSplit(k, splits, b) ==
    LET is == {i \in DOMAIN splits : splits[i].leader <= k}
    IN  IF is = {} THEN b
        ELSE splits[CHOOSE i \in is : \A j \in is : j <= i].block

\* the running flush has fixed the parent at Top.pi
ParentFixed ==
    /\ pc = "flush" /\ Top.ph = "fixpar"
    /\ Len(stack') = Len(stack) /\ TopNext.ph = "fixpar"
    /\ TopNext.pi = Top.pi + 1

\* C25: after a flush split the node at block b, in each listed parent
\* every entry whose pivot was b names b when its key is below the first
\* leader and otherwise the sibling whose range holds its key; the other
\* entries of the parent are unchanged.
C25_ParentsFollowSplit ==
    [][ParentFixed =>
          LET pb == Top.parents[Top.pi]
              old == At(World, pb).ents
              new == At(WorldNext, pb).ents
          IN  /\ DOMAIN new = DOMAIN old
              /\ \A j \in DOMAIN old :
                     IF old[j].pivot = Top.block
                     THEN /\ new[j].key = old[j].key
                          /\ new[j].pivot =
                                 BlockAfterSplit(old[j].key, Top.splits, Top.block)
                     ELSE new[j] = old[j]]_vars

\* the second of two parents was fixed and an entry of it now names a
\* sibling
C25_Witness ==
    /\ pc = "flush" /\ Top.ph = "fixpar"
    /\ Len(Top.parents) >= 2 /\ Top.pi = 3
    /\ \E j \in DOMAIN At(World, Top.parents[2]).ents :
           \E i \in DOMAIN Top.splits :
               At(World, Top.parents[2]).ents[j].pivot = Top.splits[i].block

\* a step of Insert's loop "for h >= t.root.Height()"
RootGrown == pc = "grow" /\ trace' = Append(trace, "grow")

\* Insert leaves the loop: the entry is offered to the root
LoopLeft ==
    /\ pc = "grow"
    /\ \/ trace' = Append(trace, "insert")
       \/ trace' = Append(trace, "reject")

\* flush calls itself for a fixup child
FlushRecursed == pc = "flush" /\ Len(stack') = Len(stack) + 1

\* flush calls rebalance
Rebalanced == pc = "flush" /\ trace' = Append(trace, "rebalance")

\* C26: every Insert terminates, with a result or with the panic of a cache
\* call that does not return.  An iteration of the root-growth loop adds one
\* level to a root the key's height reaches, and the loop is left once the
\* root is higher than the key; a recursive flush is on a node lower than its
\* caller's, whose height is 2 or more; at height 1 rebalance is called and
\* nothing is flushed below.
C26_InsertTerminates ==
    /\ (pc \notin {"idle", "panic"}) ~> (pc \in {"idle", "panic"})
    /\ [][/\ RootGrown => /\ hgt[key] >= root.height
                          /\ pc' = "grow" => root'.height = root.height + 1
          /\ LoopLeft => root.height > hgt[key]
          /\ FlushRecursed =>
                /\ At(World, Top.block).height >= 2
                /\ At(WorldNext, TopNext.block).height < At(World, Top.block).height
          /\ Rebalanced =>
                /\ At(World, Top.block).height = 1
                /\ Len(stack') = Len(stack)
                /\ FlushOver(TopNext)]_vars

\* an Insert whose flushes went three levels down and ended in rebalance
\* has returned nil
C26_Witness ==
    /\ pc = "idle" /\ ret = "nil"
    /\ Events("rebalance") # {}
    /\ Len(leaseLog) >= 6
    /\ root.height >= 4

\* C27: no block id is handed out twice.  cache.Add is never called for a
\* block that already has a node (the call would panic), and whenever
\* Insert has returned, with nil or with an error, maxBlock is at least
\* every block id registered in the cache or written to the disk.
C27_BlockIdsFresh ==
    /\ pc # "panic"
    /\ pc = "idle" => \A b \in DOMAIN nodes \cup disk : b <= maxBlock

\* the activation record of the flush of the root, when there is one
RootFrames == {i \in DOMAIN stack : stack[i].block = rootBlock}

\* C28: every key stored in the root has a height below the root's; so
\* the flush of the root marks no root entry as a pivot, starts no sibling
\* and has no parents to fix.
C28_RootKeysBelowRoot ==
    /\ \A i \in DOMAIN root.ents :
          /\ hgt[root.ents[i].key] < root.height
          /\ root.ents[i].pivot = noBlock
    /\ \A i \in RootFrames :
          /\ i = 1
          /\ stack[i].parents = <<>>
          /\ stack[i].leader = 0
          /\ stack[i].splits = <<>>
          /\ stack[i].bulk = <<>>
          /\ stack[i].ph # "fixpar"

\* the flush of a root of height 3 or more has handed its two entries down
\* and left the root without entries
C28_Witness ==
    /\ pc = "flush" /\ Len(stack) = 1 /\ RootFrames = {1}
    /\ Top.ph = "fixups" /\ Top.i = 3
    /\ root.height >= 3
    /\ root.ents = <<>>

\* the block the callback leases next in the activation record f: the child
\* the entry's pivot names, or the current child
NextChild(f) ==
    LET ent == At(World, f.block).ents[f.i]
    IN  IF ent.pivot # noBlock THEN ent.pivot ELSE f.cblock

\* the blocks flush is about to call cache.Get with
GetsAhead(f) ==
    (IF f.ph = "iter" /\ ~f.err /\ f.i <= Len(At(World, f.block).ents)
     THEN {NextChild(f)} ELSE {})
    \cup (IF f.ph = "fixpar" /\ f.pi <= Len(f.parents)
          THEN {f.parents[f.pi]} ELSE {})
    \cup (IF f.ph = "fixups" /\ ~AtLeaves(f) /\ f.fi <= Len(f.fixups)
          THEN {f.fixups[f.fi]} ELSE {})

\* the flushes of the direct children of the root
ChildOfRoot(f) == f.parents = <<rootBlock>>

\* C29: during an Insert cache.Get is never called with rootBlock.  No
\* pivot names the root, and the flush of a direct child of the root starts
\* no sibling, so it has no split whose parent fix-up would lease the root.
C29_RootNeverLeased ==
    /\ rootBlock \notin DOMAIN nodes
    /\ \A b \in AllBlocks : rootBlock \notin PivotsOf(At(World, b))
    /\ \A i \in DOMAIN stack :
          /\ rootBlock \notin GetsAhead(stack[i])
          /\ ChildOfRoot(stack[i]) =>
                /\ stack[i].leader = 0
                /\ stack[i].splits = <<>>
                /\ stack[i].ph # "fixpar"

\* the flush of a direct child of the root has handed two entries down and
\* kept one of them as a pivot
C29_Witness ==
    /\ pc = "flush" /\ Len(stack) = 2 /\ ChildOfRoot(Top)
    /\ Top.ph = "fixups" /\ Top.i = 3
    /\ At(World, Top.block).ents # <<>>

\* the keys held by the nodes of the skip list in the world w
KeysIn(w, bs) == UNION {NodeKeys(At(w, b)) : b \in bs}

\* C30: as long as no cache or disk call has failed, every key whose Insert
\* returned nil is in the root or in a node registered in the cache, at
\* every step; and a key that a step of flush removes from a node is in
\* another node of the cache before the step and after it.
C30_KeysStayPresent ==
    /\ [](faults = 0 => okKeys \subseteq KeysIn(World, AllBlocks))
    /\ [][(pc = "flush" /\ faults' = 0) =>
            \A b \in AllBlocks :
                \A k \in NodeKeys(At(World, b)) \ NodeKeys(At(WorldNext, b)) :
                    /\ k \in KeysIn(World, DOMAIN nodes \ {b})
                    /\ k \in KeysIn(WorldNext, DOMAIN nodes \ {b})]_vars

\* without a failure, flushes have moved every inserted key out of the root
\* and split a node: a key is in a sibling and in a leaf
C30_Witness ==
    /\ pc = "idle" /\ faults = 0
    /\ Cardinality(okKeys) >= 2
    /\ root.ents = <<>>
    /\ \E k \in okKeys : \E b, c \in DOMAIN nodes :
          /\ nodes[b].height = 0 /\ k \in NodeKeys(nodes[b])
          /\ nodes[c].height >= 1 /\ nodes[c].pivot = noBlock
          /\ k \in NodeKeys(nodes[c])

\* the root rejects the entry and Insert returns "entry too large to fit"
RootRejects == pc = "grow" /\ trace' = Append(trace, "reject")

\* the skip list's own state: the root, the block counter, the cache and
\* the disk
Stored == <<root, maxBlock, nodes, leases, disk>>

\* C31: an Insert that returns "entry too large to fit" because the root
\* rejected the entry leaves the skip list as it was before the call: the
\* call did nothing before the rejection (the call itself and the rejection
\* change nothing, and no root was allocated in between).
C31_RejectChangesNothing ==
    [][/\ (pc = "idle" /\ pc' = "grow") => Stored' = Stored
       /\ RootRejects => /\ pc' = "idle" /\ ret' = "err"
                         /\ Stored' = Stored
                         /\ trace = <<>>]_vars

\* an Insert was rejected by the root
C31_Witness == pc = "idle" /\ ret = "err" /\ Events("reject") # {}

\* the write of the old root fails in newRoot
GrowthFails == pc = "grow" /\ trace' = Append(trace, "growfail")

BIds(b) == 0..(Len(b.nodes) - 1)

\* the nodes an interior node references: its entries' pivots and its next
BChildren(n) == {n.payload[i].pivot : i \in DOMAIN n.payload} \cup {n.next}

BNodeKeys(n) == {n.payload[i].key : i \in DOMAIN n.payload}

\* the structure of a btree: the root has no parent, every other node's
\* parent is the interior node that references it, interior pivots are node
\* ids, and the leaves are chained both ways in key order
BWellFormed(b) ==
    /\ b.rooted => b.rid \in BIds(b) /\ BNode(b, b.rid).parent = invalidNode
    /\ \A id \in BIds(b) :
          LET n == BNode(b, id)
          IN  /\ id # b.rid =>
                    /\ n.parent \in BIds(b)
                    /\ ~BNode(b, n.parent).leaf
                    /\ id \in BChildren(BNode(b, n.parent))
              /\ ~n.leaf =>
                    /\ BChildren(n) \subseteq BIds(b)
                    /\ \A c \in BChildren(n) : BNode(b, c).parent = id
              /\ (n.leaf /\ n.next # invalidNode) =>
                    /\ n.next \in BIds(b)
                    /\ BNode(b, n.next).leaf
                    /\ BNode(b, n.next).prev = id
                    /\ \A x \in BNodeKeys(n) : \A y \in BNodeKeys(BNode(b, n.next)) :
                           x < y
              /\ (n.leaf /\ n.prev # invalidNode) =>
                    /\ n.prev \in BIds(b)
                    /\ BNode(b, n.prev).next = id

\* C33: after any sequence of Insert calls on a btree and of Append calls on
\* a Bulk, the root's parent is invalid, every other node's parent is the
\* interior node that references it, every interior pivot is a node id, and
\* the leaves form a doubly linked chain in key order.
C33_TreeWellFormed ==
    /\ BWellFormed(bt)
    /\ BWellFormed(BulkTree(bBulk))

\* both trees are three levels high, the inserted one after inserts in
\* descending order
C33_Witness ==
    /\ bt.rooted /\ ~BNode(bt, bt.rid).leaf
    /\ ~BNode(bt, BNode(bt, bt.rid).next).leaf
    /\ bBulk.b.rooted /\ ~BNode(bBulk.b, bBulk.b.rid).leaf
    /\ ~BNode(bBulk.b, BNode(bBulk.b, bBulk.b.rid).next).leaf
    /\ bLast.op = "insert" /\ bLast.fresh /\ bLast.key = 1

\* C34: the Count of the tree of a Bulk is the number of entries appended to
\* it in strictly ascending order, also once the appends have split nodes.
C34_BulkCount == BulkTree(bBulk).count = Cardinality(bKeys)

\* an append has split the leaf of the Bulk
C34_Witness ==
    /\ bLast.op = "append"
    /\ BulkKeys(bBulk) = bKeys
    /\ ~BNode(BulkTree(bBulk), BulkTree(bBulk).rid).leaf

\* the tree a Write and Load starts from
LoadedFrom == IF bLast'.bulk THEN BulkTree(bBulk) ELSE bt

\* C35: for every btree reachable by Insert or bulk append, the empty tree
\* included, Load of the bytes of Write returns no error and a tree with the
\* same Count and the same entries in order.
C35_WriteLoadRoundTrip ==
    [][bLast'.op = "load" =>
          /\ ~bLast'.err
          /\ bt'.count = LoadedFrom.count
          /\ IteratorAll(bt') = IteratorAll(LoadedFrom)]_vars

\* Load has refused the bytes of a tree
C35_Witness == bLast.op = "load" /\ bLast.err

\* the callback of a Flush of the node is called for its i-th entry and fails
CallbackFails(cb) == cb.mode = "err" /\ cb.at \in 1..Len(NIter(nd.t).out)

\* C36: when the callback given to Flush returns an error for an entry, Flush
\* returns an error and leaves the node's entries and buffer as they were.
C36_FlushCallbackError ==
    [][\A cb \in FlushCallbacks :
          (CallbackFails(cb) /\ NFlushCall(cb)) =>
              /\ NFlush(nd.t, cb).err
              /\ nd'.t.entries = nd.t.entries
              /\ nd'.t.buf = nd.t.buf]_vars

\* a Flush whose callback failed has left a node with entries as it was
C36_Witness ==
    /\ nd.last.op = "flush" /\ ~nd.last.wrote
    /\ nd.t.entries # <<>> /\ nd.t = nd.last.before

\* the entries a Flush is to keep, each by its prefix, its lengths and kind,
\* and its pivot: those the callback returned a pivot other than zero for,
\* with that pivot
FlushKeeps(t, cb) ==
    LET it == NIter(t).out
    IN  {<<it[i].ent.prefix, it[i].ent.kvk, CbPivot(cb, i)>> :
            i \in {j \in DOMAIN it : CbPivot(cb, j) # 0}}

\* the entries of a node, each by its prefix, its lengths and kind, and its
\* pivot
KeyPivots(t) ==
    LET it == NIter(t).out
    IN  {<<it[i].ent.prefix, it[i].ent.kvk, it[i].ent.pivot>> : i \in DOMAIN it}

\* C37: when every call of the callback succeeds, Flush keeps exactly the
\* entries the callback returned a pivot other than zero for, with that
\* pivot, and drops the others; an entry after a dropped one is kept when its
\* pivot is not zero.
C37_FlushKeepsNonZero ==
    [][\A cb \in FlushCallbacks :
          (cb.mode # "err" /\ NFlushCall(cb)) =>
              /\ ~NFlush(nd.t, cb).err
              /\ KeyPivots(nd'.t) = FlushKeeps(nd.t, cb)
              /\ Len(nd'.t.entries) = Cardinality(FlushKeeps(nd.t, cb))]_vars

\* a Flush whose callback returned zero for the first of two entries
C37_Witness ==
    /\ nd.last.op = "flush" /\ nd.last.wrote
    /\ Len(nd.last.before.entries) = 2
    /\ nd.t.entries = <<>>

\* the keys an iteration of the node hands to its callback, in order
IterKeys(t) == [i \in DOMAIN Tuples(t) |-> Tuples(t)[i].key]

\* the node was loaded with entries and has had entries inserted since
LoadedAndChanged(t) == t.count > 0 /\ t.entries # <<>>

\* C38: on a node that was obtained from Load and then changed by Inserts,
\* the iteration ends without an error and visits each key once in
\* ascending order; where a loaded and an inserted entry have the same key
\* it is the inserted one that is visited.
C38_LoadedIterMerges ==
    LoadedAndChanged(nd.t) =>
        LET r == NIter(nd.t)
            keys == IterKeys(nd.t)
        IN  /\ ~r.hang /\ ~r.err /\ ~r.panic
            /\ \A i \in 1..(Len(keys) - 1) : BytesCompare(keys[i], keys[i + 1]) = -1
            /\ \A i \in DOMAIN nd.t.entries :
                   \E j \in DOMAIN r.out : r.out[j] = [ent |-> nd.t.entries[i], c |-> FALSE]

\* an entry was inserted into a node that Load made from one entry
C38_Witness ==
    /\ nd.last.op = "loadedinsert" /\ nd.last.wrote
    /\ nd.t.count = 1 /\ Len(nd.t.entries) = 1

\* C39: after reset a node is like a node New makes with the same arguments:
\* it has no entries, its buffer holds the header and nothing else, and
\* every sequence of Inserts is accepted and refused alike and leaves the
\* same serialized bytes on both.
C39_ResetLikeNew ==
    cnode.twin =>
        /\ ~cnode.panic
        /\ cnode.sinceReset = 0 =>
               cnode.t.entries = <<>> /\ cnode.t.len = capNodeHeaderSize
        /\ cnode.same
        /\ CapWrite(cnode.t) = CapWrite(cnode.f)

\* a node was reset and an Insert after it answered otherwise than on the
\* node New made
C39_Witness ==
    /\ cnode.twin /\ ~cnode.panic /\ cnode.op = "insert"
    /\ cnode.sinceReset = 2 /\ ~cnode.same

\* C40: Load answers every buffer with a node or an error and slices
\* nothing outside the buffer; a buffer that declares a count or a length
\* which overruns the buffer, or which is negative as a signed number, gets
\* an error.
C40_LoadRejectsBadBuffers ==
    cnode.op = "load" =>
        /\ ~cnode.loaded.panic
        /\ (cnode.loaded.negative \/ cnode.loaded.overrun) => ~cnode.loaded.ok

\* Load has panicked on a buffer that declares a negative length
C40_Witness ==
    /\ cnode.op = "load"
    /\ cnode.loaded.negative /\ ~cnode.loaded.overrun
    /\ cnode.loaded.panic

====
